---------------------------- MODULE Spec2Model ----------------------------
(***************************************************************************)
(* Verification model of BiaPy's instance-segmentation post-processing     *)
(* (data/post_processing/post_processing.py).                              *)
(*                                                                         *)
(* The module holds several state machines, one per function of the        *)
(* source, each with its own specification:                                *)
(*   SpecPoints       remove_close_points                                  *)
(*   SpecSweep        calculate_optimal_mw_thresholds, search of a patch   *)
(*   SpecCalibration  calculate_optimal_mw_thresholds, the whole run       *)
(* The variables of the machines a specification does not run stay at      *)
(* their idle value.                                                       *)
(***************************************************************************)
EXTENDS Integers, Sequences, FiniteSets, TLC

\* An optional value: None, or Some(x).
None == <<>>

Some(x) == <<x>>

IsNone(o) == o = <<>>

Get(o) == o[1]

\* ------------------------------------------------------------------------
\* State.  Each machine has its own variables.
\* ------------------------------------------------------------------------
\* remove_close_points
VARIABLES
    pt_pc,          \* position inside remove_close_points
    points,         \* argument: the points, in input order
    classes,        \* argument: the classes, or None
    radius,         \* argument
    resolution,     \* argument, (z,y,x)
    ndim,           \* argument
    point_list,     \* points.copy(), then scaled by the resolution
    neighbors,      \* dictionary node -> set of nodes within radius
    node,           \* loop variable of "for node in positions"
    keep,           \* list of kept positions
    discard,        \* set of discarded positions
    pt_result       \* the value returned

ptVars == <<pt_pc, points, classes, radius, resolution, ndim, point_list,
            neighbors, node, keep, discard, pt_result>>

\* calculate_optimal_mw_thresholds, the threshold search of one patch
VARIABLES
    sw_pc,      \* "loop": in the section's for loop; "recorded": results appended
    sw_mode,    \* argument mode: "BC" or "BCD"
    section,    \* the section running: "TH3", "TH5", "TH2", "TH1", "TH4"
    n_labels,   \* len(labels): distinct values of the patch's mask, 0 included
    th,         \* the locals thN_* and l_thN of the section running
    in_row,     \* local in_row: set in line 924, NOT set again before TH4
    rec_min,    \* value appended to l_thN_max (TH3, TH5) or l_thN_min, if any
    rec_opt     \* value appended to l_thN_opt (TH2, TH1, TH4)

swVars == <<sw_pc, sw_mode, section, n_labels, th, in_row, rec_min, rec_opt>>

\* calculate_optimal_mw_thresholds, the run over the files and patches
VARIABLES
    cal_pc,             \* position inside calculate_optimal_mw_thresholds
    cal_mode,           \* argument mode
    distance_mask_path, \* argument: None, or a path
    dis_channels_ok,    \* the distance masks on disk have 3 channels
    files,              \* data on disk: per file, len(np.unique(mask)) of each patch
    file_i,             \* loop variable of "for i in range(len(ids))"
    walked,             \* directories listed with os.walk so far
    files_read,         \* sample files (images, masks, distance masks) read so far
    model_calls,        \* calls of model.predict so far
    ideal_number_obj,   \* list ideal_number_obj
    l_th_min,           \* lists l_th1_min, l_th1_opt, l_th2_min, l_th2_opt, l_th3_max
    l_th_dis,           \* lists l_th4_min, l_th4_opt, l_th5_max (mode BCD)
    error,              \* the exception raised, "none" if none
    returned            \* the lists the returned thresholds are aggregated over

calVars == <<cal_pc, cal_mode, distance_mask_path, dis_channels_ok, files, file_i, walked,
             files_read, model_calls, ideal_number_obj, l_th_min, l_th_dis, error,
             returned>>

\* watershed_by_channels
VARIABLES
    ws_pc,      \* position inside watershed_by_channels
    channels,   \* argument channels
    ws_ths,     \* argument ths: TH1..TH5 and TH_POINTS
    scan,       \* voxels of data thresholded so far (raveled order)
    seed_map,   \* local seed_map: 0/1 after thresholding, labels after label()
    foreground, \* local foreground
    semantic,   \* local semantic
    opts,       \* the optional arguments of the call
    segm,       \* local segm
    max_value,  \* local max_value
    dtype       \* dtype of the array returned

wsVars == <<ws_pc, channels, ws_ths, scan, seed_map, foreground, semantic, opts,
            segm, max_value, dtype>>

\* the dtype chosen for the returned labels (lines 349-356)
VARIABLES
    dt_pc,      \* position: before or after the choice
    dt_max,     \* local max_value
    dt_dtype    \* dtype chosen

dtVars == <<dt_pc, dt_max, dt_dtype>>

\* ensemble8_2d_predictions and ensemble16_3d_predictions
VARIABLES
    ens_pc,             \* position inside the function
    ens_fn,             \* which of the two functions runs
    o_img,              \* argument o_img / vol (one channel)
    batch_size_value,   \* argument
    pad_to_square,      \* local pad_to_square
    total_img,          \* local total_img / total_vol: the transformed copies
    decoded,            \* local _decoded_aug_img / _decoded_aug_vols
    ens_out             \* the array returned

ensVars == <<ens_pc, ens_fn, o_img, batch_size_value, pad_to_square, total_img,
             decoded, ens_out>>

\* the removal of small objects (lines 341-347), applied to a label map
VARIABLES
    rs_pc,          \* how many times the removal has been applied
    rs_ar,          \* the label map it is applied to
    rs_min_size,    \* the size threshold
    rs_once,        \* the label map after one application
    rs_twice        \* the label map after two applications

rsVars == <<rs_pc, rs_ar, rs_min_size, rs_once, rs_twice>>

\* repare_large_blobs
VARIABLES
    bl_pc,      \* position inside repare_large_blobs
    bl_img,     \* argument img, changed in place
    size_th,    \* argument size_th
    props,      \* local props: label, area, bbox of every instance at entry
    bl_k,       \* loop variable k of "for k, l in enumerate(props['label'])"
    bl_error    \* the exception raised, "none" if none

blVars == <<bl_pc, bl_img, size_th, props, bl_k, bl_error>>

\* remove_instance_by_circularity_central_slice
VARIABLES
    ci_pc,               \* position inside remove_instance_by_circularity_central_slice
    ci_img,              \* argument img, changed in place by the final loop
    image3d,             \* local image3d: img.ndim == 3
    coords_given,        \* "coords_list is not None" at entry
    coords_list,         \* coords_list: the argument, or the slice lists built at 1827-1855
    circularity_th,      \* argument circularity_th, in thousandths
    label_list_coords,   \* local label_list_coords
    npixels,             \* local npixels
    areas,               \* local areas
    diameters,           \* local diameters
    diam_calc,           \* local diam_calc
    circularities,       \* local circularities, in thousandths
    circularities_count, \* local circularities_count
    comment,             \* local comment
    ci_i,                \* loop variable i of "for i in tqdm(range(img.shape[0]))"
    ci_error             \* the exception raised, "none" if none

ciVars == <<ci_pc, ci_img, image3d, coords_given, coords_list, circularity_th,
           label_list_coords, npixels, areas, diameters, diam_calc, circularities,
           circularities_count, comment, ci_i, ci_error>>

\* voronoi_on_mask_2
VARIABLES
    v2_pc,            \* position inside voronoi_on_mask_2
    v2_data,          \* data[0] of line 1282
    v2_mask,          \* mask[0] of line 1281, the channels already combined
    v2_th,            \* argument th
    closedBinaryMask, \* local closedBinaryMask
    voronoiCyst,      \* local voronoiCyst, the array returned
    idsToFill,        \* local idsToFill
    idsPerim,         \* local idsPerim
    labelsPerimIds,   \* local labelsPerimIds
    nId,              \* loop variable nId of line 1310
    v2_error          \* the exception raised, "none" if none

v2Vars == <<v2_pc, v2_data, v2_mask, v2_th, closedBinaryMask, voronoiCyst, idsToFill,
           idsPerim, labelsPerimIds, nId, v2_error>>

\* voronoi_on_mask
VARIABLES
    vm_pc,                   \* position inside voronoi_on_mask
    vm_data,                 \* argument data[i]
    vm_mask,                 \* argument mask[i,...,0]
    vm_th,                   \* argument th
    thres_small,             \* argument thres_small
    data_copy,               \* local _data[i], the array returned
    vm_labels,               \* local labels: the distinct values of _data[i]
    vm_points,               \* local points: per group the coordinate sums and the size
    voronoi_mask,            \* local voronoi_mask after line 1203
    pos_not_labelled_points, \* local pos_not_labelled_points
    vm_j                     \* loop variable j of line 1208

vmVars == <<vm_pc, vm_data, vm_mask, vm_th, thres_small, data_copy, vm_labels, vm_points,
           voronoi_mask, pos_not_labelled_points, vm_j>>

\* detection_watershed, donut repair
VARIABLES
    dw_pc,                   \* position inside detection_watershed
    dw_seeds,                \* local seeds after line 1494
    class_coords,            \* local class_coords of the donuts class
    dw_lines,                \* per instance: line_y and line_x after lines 1571-1572
    first_dilation,          \* first_dilation[dclass-1]
    donuts_nucleus_diameter, \* argument donuts_nucleus_diameter
    dw_i,                    \* loop variable i of line 1507
    dw_branch,               \* the branch of lines 1646-1684 taken for the last instance
    dw_error                 \* the exception raised, "none" if none

dwVars == <<dw_pc, dw_seeds, class_coords, dw_lines, first_dilation,
            donuts_nucleus_diameter, dw_i, dw_branch, dw_error>>

\* watershed_by_channels, seeds of the v2 modes
VARIABLES
    sv_pc,        \* position inside watershed_by_channels, v2 modes
    sv_channels,  \* argument channels
    sv_data,      \* argument data: the channel values of every pixel
    sv_sequence,  \* arguments seed_morph_sequence and seed_morph_radius
    sv_labelled,  \* seed_map when line 336 is reached
    sv_seed_map,  \* seed_map handed to watershed at line 344
    sv_error      \* the exception raised, "none" if none

svVars == <<sv_pc, sv_channels, sv_data, sv_sequence, sv_labelled, sv_seed_map, sv_error>>

\* test_single_data_generator
VARIABLES
    tg_pc,        \* "new" before __init__, "ready" after it
    tg_dtypes,    \* the dtype of every sample image, in index order
    tg_custom,    \* norm_custom_mean and norm_custom_std are both given
    X_norm,       \* the dictionary object self.X_norm
    tg_returned,  \* what every __getitem__ call returned, oldest first
    tg_error      \* the exception raised, "none" if none

tgVars == <<tg_pc, tg_dtypes, tg_custom, X_norm, tg_returned, tg_error>>

vars == <<ptVars, swVars, calVars, wsVars, dtVars, ensVars, rsVars, blVars, ciVars, v2Vars, vmVars, dwVars, svVars, tgVars>>

\* What the actions of one machine leave alone: the other machines.
ptOthers == <<swVars, calVars, wsVars, dtVars, ensVars, rsVars, blVars, ciVars, v2Vars, vmVars, dwVars, svVars, tgVars>>

swOthers == <<ptVars, calVars, wsVars, dtVars, ensVars, rsVars, blVars, ciVars, v2Vars, vmVars, dwVars, svVars, tgVars>>

calOthers == <<ptVars, swVars, wsVars, dtVars, ensVars, rsVars, blVars, ciVars, v2Vars, vmVars, dwVars, svVars, tgVars>>

wsOthers == <<ptVars, swVars, calVars, dtVars, ensVars, rsVars, blVars, ciVars, v2Vars, vmVars, dwVars, svVars, tgVars>>

dtOthers == <<ptVars, swVars, calVars, wsVars, ensVars, rsVars, blVars, ciVars, v2Vars, vmVars, dwVars, svVars, tgVars>>

ensOthers == <<ptVars, swVars, calVars, wsVars, dtVars, rsVars, blVars, ciVars, v2Vars, vmVars, dwVars, svVars, tgVars>>

rsOthers == <<ptVars, swVars, calVars, wsVars, dtVars, ensVars, blVars, ciVars, v2Vars, vmVars, dwVars, svVars, tgVars>>

blOthers == <<ptVars, swVars, calVars, wsVars, dtVars, ensVars, rsVars, ciVars, v2Vars, vmVars, dwVars, svVars, tgVars>>

ciOthers == <<ptVars, swVars, calVars, wsVars, dtVars, ensVars, rsVars, blVars, v2Vars, vmVars, dwVars, svVars, tgVars>>

v2Others == <<ptVars, swVars, calVars, wsVars, dtVars, ensVars, rsVars, blVars, ciVars, vmVars, dwVars, svVars, tgVars>>

vmOthers == <<ptVars, swVars, calVars, wsVars, dtVars, ensVars, rsVars, blVars, ciVars, v2Vars, dwVars, svVars, tgVars>>

dwOthers == <<ptVars, swVars, calVars, wsVars, dtVars, ensVars, rsVars, blVars, ciVars, v2Vars, vmVars, svVars, tgVars>>

svOthers == <<ptVars, swVars, calVars, wsVars, dtVars, ensVars, rsVars, blVars, ciVars, v2Vars, vmVars, dwVars, tgVars>>

tgOthers == <<ptVars, swVars, calVars, wsVars, dtVars, ensVars, rsVars, blVars, ciVars, v2Vars, vmVars, dwVars, svVars>>

\* ------------------------------------------------------------------------
\* Generic helpers
\* ------------------------------------------------------------------------
Abs(x) == IF x < 0 THEN -x ELSE x

Min2(a, b) == IF a <= b THEN a ELSE b

RECURSIVE SeqsUpTo(_, _)
\* All sequences over S of length 0..n.
SeqsUpTo(S, n) ==
    IF n = 0 THEN {<<>>}
    ELSE LET shorter == SeqsUpTo(S, n - 1)
         IN  shorter \cup {Append(s, x) : s \in {t \in shorter : Len(t) = n - 1}, x \in S}

\* ========================================================================
\* remove_close_points (post_processing.py 1326-1403)
\* ========================================================================

\* Largest number of points in the argument.
MaxPoints == 3

\* Coordinates the points are drawn from: (z,y,x), and (y,x) for ndim = 2.
PointDomain(d) ==
    IF d = 3 THEN {<<z, y, 0>> : z \in {0, 1, 10}, y \in {0, 1}}
    ELSE {<<0, 0>>, <<1, 0>>, <<0, 1>>}

ResolutionDomain == {<<1, 1, 1>>, <<2, 1, 1>>}

RadiusDomain == {1, 2}

ClassDomain == {1, 2}

\* Lines 1359-1363: each coordinate times the resolution of its axis (the
\* third one only for ndim = 3).
ScalePoint(p, res, d) ==
    [a \in 1..Len(p) |-> IF a <= 2 \/ d = 3 THEN p[a] * res[a] ELSE p[a]]

\* Squared Euclidean distance between two points of the same dimension.
SqDist(p, q) ==
    LET sq(a) == (p[a] - q[a]) * (p[a] - q[a])
    IN  IF Len(p) = 3 THEN sq(1) + sq(2) + sq(3) ELSE sq(1) + sq(2)

\* cKDTree.query_pairs(radius): the pairs i < j at distance at most radius.
QueryPairs(pl, r) ==
    {<<i, j>> \in (1..Len(pl)) \X (1..Len(pl)) :
        i < j /\ SqDist(pl[i], pl[j]) <= r * r}

\* Lines 1374-1384: the dictionary of neighbours built from the pairs.  A
\* node without a pair has no key: neighbors.get(node, set()) is empty.
BuildNeighbors(pairs, n) ==
    [i \in 1..n |-> {j \in 1..n : <<i, j>> \in pairs \/ <<j, i>> \in pairs}]

\* Mutant of KeepStep: the neighbours of every node are discarded, kept or not.
KeepStepAlways(nd, kp, dc, nb) ==
    IF nd \notin dc
    THEN [keep |-> Append(kp, nd), discard |-> dc \cup nb[nd]]
    ELSE [keep |-> kp, discard |-> dc \cup nb[nd]]

\* Lines 1390-1393: one iteration of the selection loop.
KeepStep(nd, kp, dc, nb) ==
    IF nd \notin dc
    THEN [keep |-> Append(kp, nd), discard |-> dc \cup nb[nd]]
    ELSE [keep |-> kp, discard |-> dc]

\* What remove_close_points returns: a single list, or a pair of lists.
NotReturned == [kind |-> "none", points |-> <<>>, classes |-> <<>>]

ReturnList(l) == [kind |-> "list", points |-> l, classes |-> <<>>]

ReturnPair(l, c) == [kind |-> "pair", points |-> l, classes |-> c]

\* Mutant of NoPoints: the list is never found empty.
NoPointsNever(mynumbers) == FALSE

\* Line 1367: len(mynumbers) == 0.
NoPoints(mynumbers) == Len(mynumbers) = 0

PtIdle ==
    /\ pt_pc = "idle"
    /\ points = <<>>
    /\ classes = None
    /\ radius = 0
    /\ resolution = <<>>
    /\ ndim = 0
    /\ point_list = <<>>
    /\ neighbors = <<>>
    /\ node = 0
    /\ keep = <<>>
    /\ discard = {}
    /\ pt_result = NotReturned

\* The call: any list of at most MaxPoints points, with or without classes.
PtInit ==
    /\ pt_pc = "copy"
    /\ ndim \in {2, 3}
    /\ points \in SeqsUpTo(PointDomain(ndim), MaxPoints)
    /\ classes \in {None} \cup
                  {Some(c) : c \in {t \in SeqsUpTo(ClassDomain, MaxPoints) : Len(t) = Len(points)}}
    /\ radius \in RadiusDomain
    /\ resolution \in ResolutionDomain
    /\ point_list = <<>>
    /\ neighbors = <<>>
    /\ node = 0
    /\ keep = <<>>
    /\ discard = {}
    /\ pt_result = NotReturned

\* Lines 1354-1368: copy, scale by the resolution, return [] when empty.
PtScale ==
    /\ pt_pc = "copy"
    /\ point_list' = [i \in 1..Len(points) |-> ScalePoint(points[i], resolution, ndim)]
    /\ IF NoPoints(point_list')
       THEN /\ pt_pc' = "done"
            /\ pt_result' = ReturnList(<<>>)
       ELSE /\ pt_pc' = "tree"
            /\ UNCHANGED pt_result
    /\ UNCHANGED <<points, classes, radius, resolution, ndim, neighbors, node, keep, discard>>
    /\ UNCHANGED ptOthers

\* Lines 1370-1388: the tree, the pairs within radius, the neighbour
\* dictionary, and the empty keep list and discard set.
PtNeighbors ==
    /\ pt_pc = "tree"
    /\ neighbors' = BuildNeighbors(QueryPairs(point_list, radius), Len(point_list))
    /\ node' = 1
    /\ keep' = <<>>
    /\ discard' = {}
    /\ pt_pc' = "select"
    /\ UNCHANGED <<points, classes, radius, resolution, ndim, point_list, pt_result>>
    /\ UNCHANGED ptOthers

\* Lines 1390-1393: the selection loop, one node per step.
PtSelect ==
    /\ pt_pc = "select"
    /\ node <= Len(point_list)
    /\ LET r == KeepStep(node, keep, discard, neighbors)
       IN  /\ keep' = r.keep
           /\ discard' = r.discard
    /\ node' = node + 1
    /\ UNCHANGED <<pt_pc, points, classes, radius, resolution, ndim, point_list,
                   neighbors, pt_result>>
    /\ UNCHANGED ptOthers

\* Lines 1395-1403: the kept points (and classes) of the ORIGINAL lists.
PtReturn ==
    /\ pt_pc = "select"
    /\ node > Len(point_list)
    /\ pt_result' =
         LET new_point_list == [k \in 1..Len(keep) |-> points[keep[k]]]
         IN  IF ~IsNone(classes)
             THEN ReturnPair(new_point_list, [k \in 1..Len(keep) |-> Get(classes)[keep[k]]])
             ELSE ReturnList(new_point_list)
    /\ pt_pc' = "done"
    /\ UNCHANGED <<points, classes, radius, resolution, ndim, point_list,
                   neighbors, node, keep, discard>>
    /\ UNCHANGED ptOthers

PtNext == PtScale \/ PtNeighbors \/ PtSelect \/ PtReturn

\* ---- claims about remove_close_points ----------------------------------

\* Points i and j are within radius of each other, distances taken after
\* the resolution scaling.
Within(i, j) ==
    SqDist(ScalePoint(points[i], resolution, ndim),
           ScalePoint(points[j], resolution, ndim)) <= radius * radius

RECURSIVE GreedyKept(_)
\* The greedy lowest-index-first selection: i is kept iff no kept point of
\* smaller index is within radius of it.
GreedyKept(i) == \A j \in 1..(i - 1) : GreedyKept(j) => ~Within(j, i)

KeptSet == {keep[k] : k \in 1..Len(keep)}

Scenario3Points ==
    /\ points = << <<0, 0, 0>>, <<1, 0, 0>>, <<10, 0, 0>> >>
    /\ radius = 2
    /\ resolution = <<1, 1, 1>>

\* C10: when remove_close_points returns, the kept positions are exactly
\* the greedy lowest-index-first selection (in increasing order), so no two
\* kept points are within radius, every discarded point is within radius of
\* a kept one, the first point is kept, the returned points are the
\* original points at the kept positions, and the three-point scenario
\* keeps exactly two points.
C10_GreedySelection ==
    (pt_pc = "done" /\ Len(points) > 0) =>
        /\ KeptSet = {i \in 1..Len(points) : GreedyKept(i)}
        /\ \A k \in 1..(Len(keep) - 1) : keep[k] < keep[k + 1]
        /\ \A i, j \in KeptSet : i # j => ~Within(i, j)
        /\ \A i \in (1..Len(points)) \ KeptSet : \E j \in KeptSet : Within(i, j)
        /\ 1 \in KeptSet
        /\ pt_result.points = [k \in 1..Len(keep) |-> points[keep[k]]]
        /\ Scenario3Points => Len(pt_result.points) = 2

\* Reached: the scenario returned, and a run in which a point was discarded
\* and a later one kept.
C10_Witness ==
    /\ pt_pc = "done"
    /\ Scenario3Points
    /\ keep = <<1, 3>>
    /\ discard = {2}


\* C11: with an empty point set the call returns an empty result and does
\* not fail: the tree is never built (the call never gets past line 1368).
C11_EmptyPointsReturnEmpty ==
    Len(points) = 0 =>
        /\ pt_pc \in {"copy", "done"}
        /\ neighbors = <<>>
        /\ pt_pc = "done" => pt_result = ReturnList(<<>>)

\* Reached: a call with no points (and an empty class list) has returned.
C11_Witness ==
    /\ Len(points) = 0
    /\ ~IsNone(classes)
    /\ pt_pc = "done"
    /\ pt_result.kind = "list"

\* C29: when remove_close_points has returned, the result is a pair of two
\* lists of equal length, entry k of which are a kept point and its class, if
\* classes was supplied, and a single list otherwise.
C29_PairWhenClassesSupplied ==
    pt_pc = "done" =>
        IF ~IsNone(classes)
        THEN /\ pt_result.kind = "pair"
             /\ Len(pt_result.points) = Len(pt_result.classes)
             /\ \A k \in 1..Len(pt_result.points) :
                   /\ pt_result.points[k] = points[keep[k]]
                   /\ pt_result.classes[k] = Get(classes)[keep[k]]
        ELSE pt_result.kind = "list"

\* ========================================================================
\* calculate_optimal_mw_thresholds, the threshold search of one patch
\* (post_processing.py 855-986): sections TH3, TH5, TH2, TH1, TH4 in the
\* order of the code.  The prediction is the output of the external model:
\* the score (Jaccard index) and the object count of each candidate are
\* inputs, drawn at each iteration.
\* ========================================================================

\* Number of candidates of a grid (ths has 28, ths_dis depends on the data).
GridLen == 6

\* Largest number of distinct labels of a mask or of a labelled prediction.
MaxObj == 3

\* Jaccard scores are drawn from 0..MaxJac (the index scaled to integers).
MaxJac == 2

\* sys.maxsize (lines 891, 922, 959), within TLC's integers.
MaxSize == 2147483647

\* Line 934/969: a new best needs a repeat count below this.
RepeatLimit == 4

\* Line 913: from this repeat count on, TH2 advances by TieAdvance.
TieCap == 10

TieAdvance == 2

\* The candidate grid (ths, or ths_dis): increasing positive values, here
\* the candidate's rank.  0 and -1, the locals' start values, are no members.
ths == [k \in 1..GridLen |-> k]

\* Python's seq[i] for i in -len..len-1.
PyIndex(seq, i) == IF i < 0 THEN seq[Len(seq) + i + 1] ELSE seq[i + 1]

\* Lines 856-858, 870-872, 887-892, 918-923, 955-960: the locals at the
\* start of a section.
ThStart ==
    [best |-> -1, max_jac |-> -1, min |-> 0, last |-> 0, repeat_count |-> 0,
     op_pos |-> -1, obj_min_diff |-> MaxSize, opt_pos |-> -1, l |-> <<>>]

\* Mutant of TH3Body: a tie replaces the best (the latest maximum wins).
TH3BodyLatest(t, j, jac) ==
    LET t1 == IF jac >= t.max_jac
              THEN [t EXCEPT !.max_jac = jac, !.best = PyIndex(ths, j)]
              ELSE t
    IN  [t1 EXCEPT !.l = Append(t.l, jac)]

\* Lines 860-865 (TH3) and 874-879 (TH5): iteration j with score jac.
TH3Body(t, j, jac) ==
    LET t1 == IF jac > t.max_jac
              THEN [t EXCEPT !.max_jac = jac, !.best = PyIndex(ths, j)]
              ELSE t
    IN  [t1 EXCEPT !.l = Append(t.l, jac)]

\* Lines 899-909: iteration k of the TH2 sweep with obj_count objects.
TH2Body(t, k, obj_count, nl) ==
    LET diff == Abs(obj_count - nl)
        t1 == IF diff < t.obj_min_diff
              THEN [t EXCEPT !.obj_min_diff = diff, !.min = PyIndex(ths, k),
                             !.op_pos = k, !.repeat_count = 0]
              ELSE t
        t2 == IF t1.obj_min_diff = t1.last
              THEN [t1 EXCEPT !.repeat_count = t1.repeat_count + 1]
              ELSE t1
    IN  [t2 EXCEPT !.last = diff, !.l = Append(t.l, obj_count)]

\* Lines 913-914: the final TH2 position.
TH2OptPos(t) ==
    LET pos == IF t.repeat_count < TieCap
               THEN t.op_pos + (t.repeat_count \div 2)
               ELSE t.op_pos + TieAdvance
    IN  IF pos >= Len(ths) THEN Len(ths) - 1 ELSE pos

\* Mutant of TH1Accept: the repeat-count bound is dropped.
TH1AcceptNoLimit(t, diff) ==
    diff <= t.obj_min_diff /\ diff # t.last

\* A condition that lets a strictly smaller difference through at any repeat
\* count.
TH1AcceptImprovement(t, diff) ==
    \/ diff < t.obj_min_diff /\ diff # t.last
    \/ diff <= t.obj_min_diff /\ t.repeat_count < RepeatLimit /\ diff # t.last

\* Lines 934 and 969: the condition under which candidate k becomes the best.
TH1Accept(t, diff) ==
    diff <= t.obj_min_diff /\ t.repeat_count < RepeatLimit /\ diff # t.last

\* Mutant of TH1Body: the repeat count is not reset when a best is accepted.
TH1BodyNoReset(tr, k, obj_count, nl) ==
    LET t == tr.th
        diff == Abs(obj_count - nl)
        acc == TH1Accept(t, diff)
        t1 == IF acc
              THEN [t EXCEPT !.obj_min_diff = diff, !.min = PyIndex(ths, k),
                             !.op_pos = k]
              ELSE t
        row1 == IF acc THEN TRUE ELSE tr.in_row
        cnt == diff = t1.last /\ diff = t1.obj_min_diff /\ row1
        t2 == IF cnt THEN [t1 EXCEPT !.repeat_count = t1.repeat_count + 1] ELSE t1
        row2 == IF ~cnt /\ k # t1.op_pos THEN FALSE ELSE row1
    IN  [th |-> [t2 EXCEPT !.last = diff, !.l = Append(t.l, obj_count)],
         in_row |-> row2]

\* Lines 930-945 (TH1) and 965-980 (TH4): iteration k with obj_count
\* objects; tr holds the section's locals and in_row.
TH1Body(tr, k, obj_count, nl) ==
    LET t == tr.th
        diff == Abs(obj_count - nl)
        acc == TH1Accept(t, diff)
        t1 == IF acc
              THEN [t EXCEPT !.obj_min_diff = diff, !.min = PyIndex(ths, k),
                             !.op_pos = k, !.repeat_count = 0]
              ELSE t
        row1 == IF acc THEN TRUE ELSE tr.in_row
        cnt == diff = t1.last /\ diff = t1.obj_min_diff /\ row1
        t2 == IF cnt THEN [t1 EXCEPT !.repeat_count = t1.repeat_count + 1] ELSE t1
        row2 == IF ~cnt /\ k # t1.op_pos THEN FALSE ELSE row1
    IN  [th |-> [t2 EXCEPT !.last = diff, !.l = Append(t.l, obj_count)],
         in_row |-> row2]

\* Lines 949-950 and 984-985: the final TH1 / TH4 position.
TH1OptPos(t) ==
    LET pos == t.op_pos + t.repeat_count
    IN  IF pos >= Len(ths) THEN Len(ths) - 1 ELSE pos

SwIdle ==
    /\ sw_pc = "idle"
    /\ sw_mode = "BC"
    /\ section = "none"
    /\ n_labels = 0
    /\ th = ThStart
    /\ in_row = FALSE
    /\ rec_min = None
    /\ rec_opt = None

\* A patch with more than one label (line 841, else branch), at line 856.
SwInit ==
    /\ sw_pc = "loop"
    /\ sw_mode \in {"BC", "BCD"}
    /\ section = "TH3"
    /\ n_labels \in 2..MaxObj
    /\ th = ThStart
    /\ in_row = FALSE
    /\ rec_min = None
    /\ rec_opt = None

\* One iteration of the TH3 (859-865) or TH5 (873-879) loop.
TH3Step ==
    /\ sw_pc = "loop"
    /\ section \in {"TH3", "TH5"}
    /\ Len(th.l) < Len(ths)
    /\ \E jac \in 0..MaxJac : th' = TH3Body(th, Len(th.l), jac)
    /\ UNCHANGED <<sw_pc, sw_mode, section, n_labels, in_row, rec_min, rec_opt>>
    /\ UNCHANGED swOthers

\* Lines 866-867 and 880-881: the best threshold is recorded.
TH3Record ==
    /\ sw_pc = "loop"
    /\ section \in {"TH3", "TH5"}
    /\ Len(th.l) = Len(ths)
    /\ rec_min' = Some(th.best)
    /\ sw_pc' = "recorded"
    /\ UNCHANGED <<sw_mode, section, n_labels, th, in_row, rec_opt>>
    /\ UNCHANGED swOthers

\* One iteration of the TH2 loop (893-909).
TH2Step ==
    /\ sw_pc = "loop"
    /\ section = "TH2"
    /\ Len(th.l) < Len(ths)
    /\ \E obj_count \in 1..MaxObj : th' = TH2Body(th, Len(th.l), obj_count, n_labels)
    /\ UNCHANGED <<sw_pc, sw_mode, section, n_labels, in_row, rec_min, rec_opt>>
    /\ UNCHANGED swOthers

\* Lines 911-915.
TH2Record ==
    /\ sw_pc = "loop"
    /\ section = "TH2"
    /\ Len(th.l) = Len(ths)
    /\ th' = [th EXCEPT !.opt_pos = TH2OptPos(th)]
    /\ rec_min' = Some(th.min)
    /\ rec_opt' = Some(PyIndex(ths, TH2OptPos(th)))
    /\ sw_pc' = "recorded"
    /\ UNCHANGED <<sw_mode, section, n_labels, in_row>>
    /\ UNCHANGED swOthers

\* One iteration of the TH1 (926-945) or TH4 (961-980) loop.
TH1Step ==
    /\ sw_pc = "loop"
    /\ section \in {"TH1", "TH4"}
    /\ Len(th.l) < Len(ths)
    /\ \E obj_count \in 1..MaxObj :
         LET r == TH1Body([th |-> th, in_row |-> in_row], Len(th.l), obj_count, n_labels)
         IN  /\ th' = r.th
             /\ in_row' = r.in_row
    /\ UNCHANGED <<sw_pc, sw_mode, section, n_labels, rec_min, rec_opt>>
    /\ UNCHANGED swOthers

\* Lines 947-951 and 982-986.
TH1Record ==
    /\ sw_pc = "loop"
    /\ section \in {"TH1", "TH4"}
    /\ Len(th.l) = Len(ths)
    /\ th' = [th EXCEPT !.opt_pos = TH1OptPos(th)]
    /\ rec_min' = Some(th.min)
    /\ rec_opt' = Some(PyIndex(ths, TH1OptPos(th)))
    /\ sw_pc' = "recorded"
    /\ UNCHANGED <<sw_mode, section, n_labels, in_row>>
    /\ UNCHANGED swOthers

\* The section that follows s in the code (TH5 and TH4 only for BCD).
SectionAfter(s, m) ==
    CASE s = "TH3" -> IF m = "BCD" THEN "TH5" ELSE "TH2"
      [] s = "TH5" -> "TH2"
      [] s = "TH2" -> "TH1"
      [] s = "TH1" -> IF m = "BCD" THEN "TH4" ELSE "end"
      [] OTHER -> "end"

\* The next section starts with fresh locals (its own thN_* variables);
\* in_row is set to False for TH1 (line 924) and carried into TH4.  The
\* values the finished section recorded live on in the run's lists only.
NextSection ==
    /\ sw_pc = "recorded"
    /\ SectionAfter(section, sw_mode) # "end"
    /\ section' = SectionAfter(section, sw_mode)
    /\ th' = ThStart
    /\ in_row' = IF SectionAfter(section, sw_mode) = "TH1" THEN FALSE ELSE in_row
    /\ rec_min' = None
    /\ rec_opt' = None
    /\ sw_pc' = "loop"
    /\ UNCHANGED <<sw_mode, n_labels>>
    /\ UNCHANGED swOthers

SwNext ==
    \/ TH3Step \/ TH3Record
    \/ TH2Step \/ TH2Record
    \/ TH1Step \/ TH1Record
    \/ NextSection

\* ---- claims about the threshold search ---------------------------------

\* Absolute count difference of candidate k (0-based, as in the code).
Diff(k) == Abs(th.l[k + 1] - n_labels)

Candidates == 0..(Len(th.l) - 1)

MinDiff == CHOOSE d \in {Diff(k) : k \in Candidates} :
               \A k \in Candidates : d <= Diff(k)

FirstMinimizer == CHOOSE k \in Candidates :
                      /\ Diff(k) = MinDiff
                      /\ \A i \in Candidates : Diff(i) = MinDiff => k <= i

\* Number of candidates right after p that repeat p's difference.
RunAfter(p) ==
    Cardinality({m \in 1..Len(th.l) :
        \A i \in 1..m : (p + i) \in Candidates /\ Diff(p + i) = Diff(p)})

\* C4: when the TH2 sweep has recorded its result, the chosen index
\* th2_opt_pos is a candidate whose count difference is the minimum over the
\* grid, inside the contiguous tie run that starts at the first minimizer.
C4_TH2InTieRun ==
    (section = "TH2" /\ sw_pc = "recorded") =>
        /\ th.opt_pos \in Candidates
        /\ Diff(th.opt_pos) = MinDiff
        /\ th.opt_pos >= FirstMinimizer
        /\ th.opt_pos <= FirstMinimizer + RunAfter(FirstMinimizer)

InTH1Loop == section \in {"TH1", "TH4"} /\ sw_pc = "loop"

\* A step of the TH1 / TH4 loop that replaces the best position.
Replaced == InTH1Loop /\ sw_pc' = "loop" /\ th'.op_pos # th.op_pos

\* C5 as stated: the best position is replaced at candidate k only when the
\* difference at k is strictly smaller than the best accepted so far and the
\* repeat count is below 4.
C5_StrictImprovementOnly ==
    [][Replaced => (th'.last < th.obj_min_diff /\ th.repeat_count < RepeatLimit)]_vars

\* C5, amended: the best position is replaced at candidate k only when the
\* difference at k is at most the best accepted so far, differs from the
\* difference of the candidate before it, and the repeat count is below 4;
\* the new best is then candidate k with that difference.
C5_AcceptOnlyNewRun ==
    [][Replaced =>
        /\ th'.last <= th.obj_min_diff
        /\ th'.last # th.last
        /\ th.repeat_count < RepeatLimit
        /\ th'.op_pos = Len(th.l)
        /\ th'.obj_min_diff = th'.last]_vars

\* Reached: candidate 2 replaced candidate 0 with an equal difference.
C5_Witness ==
    /\ section = "TH1"
    /\ sw_pc = "loop"
    /\ n_labels = 3
    /\ th.l = <<2, 1, 2>>
    /\ th.op_pos = 2
    /\ th.obj_min_diff = 1

\* C6: when the TH1 / TH4 sweep accepted a candidate, the final position is
\* the last accepted position plus the number of candidates right after it
\* that repeat its difference, clamped to the last index, and the candidate
\* there has the accepted best difference.
C6_FinalPositionIsRunEnd ==
    (section \in {"TH1", "TH4"} /\ sw_pc = "recorded" /\ th.op_pos >= 0) =>
        /\ th.opt_pos = Min2(th.op_pos + RunAfter(th.op_pos), Len(ths) - 1)
        /\ Diff(th.opt_pos) = th.obj_min_diff
        /\ Diff(th.op_pos) = th.obj_min_diff
        /\ rec_opt = Some(PyIndex(ths, th.opt_pos))

\* Reached: a TH4 sweep whose accepted best, not the first candidate, was
\* followed by a run of two and then by a worse candidate.
C6_Witness ==
    /\ section = "TH4"
    /\ sw_pc = "recorded"
    /\ th.op_pos = 2
    /\ th.repeat_count = 2
    /\ th.opt_pos = 4
    /\ Diff(5) > Diff(4)

\* C7: the TH3 / TH5 value recorded is a candidate of the grid whose score
\* is the maximum over the grid, the earliest such candidate.
C7_EarliestMaximum ==
    (section \in {"TH3", "TH5"} /\ sw_pc = "recorded") =>
        \E j \in 1..Len(ths) :
            /\ rec_min = Some(ths[j])
            /\ \A i \in 1..Len(ths) : th.l[i] <= th.l[j]
            /\ \A i \in 1..(j - 1) : th.l[i] < th.l[j]

\* Reached: a TH5 search with the maximum score at candidates 1 and 3 (of
\* 0..), the first of them recorded.
C7_Witness ==
    /\ section = "TH5"
    /\ sw_pc = "recorded"
    /\ th.l[1] < th.l[2]
    /\ th.l[2] = th.l[4]
    /\ th.l[3] < th.l[2]
    /\ \A i \in 1..Len(th.l) : th.l[i] <= th.l[2]
    /\ rec_min = Some(ths[2])

\* C27: when the TH1 (or TH4) sweep is recorded, the best position is an
\* index of the grid, th1_min is a value of the grid and the final position is
\* not before the best position.
C27_BestPositionInsideGrid ==
    (sw_pc = "recorded" /\ section \in {"TH1", "TH4"}) =>
        /\ th.op_pos \in 0..(Len(ths) - 1)
        /\ \E k \in 1..Len(ths) : ths[k] = th.min
        /\ th.opt_pos >= th.op_pos
        /\ th.opt_pos \in 0..(Len(ths) - 1)

\* C28: in the TH1 (and TH4) sweep, once the repeat count has reached
\* RepeatLimit, an iteration changes neither the best position nor the best
\* difference nor th1_min, and the repeat count does not decrease.
C28_FrozenAfterRepeatLimit ==
    [][(/\ sw_pc = "loop"
        /\ section \in {"TH1", "TH4"}
        /\ section' = section
        /\ th.repeat_count >= RepeatLimit)
       => /\ th'.op_pos = th.op_pos
          /\ th'.obj_min_diff = th.obj_min_diff
          /\ th'.min = th.min
          /\ th'.repeat_count >= th.repeat_count]_vars

\* The first candidate was accepted, the four after it tie with it, and the
\* last candidate of the grid has a strictly smaller difference: the sweep is
\* over and the best position is still the first candidate.
C28_Witness ==
    /\ section = "TH1"
    /\ sw_pc = "loop"
    /\ Len(th.l) = Len(ths)
    /\ th.op_pos = 0
    /\ th.repeat_count = RepeatLimit
    /\ Abs(th.l[Len(ths)] - n_labels) < th.obj_min_diff
    /\ th.obj_min_diff = Abs(th.l[1] - n_labels)

\* ========================================================================
\* calculate_optimal_mw_thresholds, the run (post_processing.py 690-1063).
\* The threshold search of a patch is the machine above; here a patch with
\* more than one label appends one entry, the patch <<file, patch>>, to
\* each of the run's lists, standing for the value its search recorded.
\* ========================================================================

\* Largest number of files in data_path.
MaxFiles == 2

\* Largest number of patches a file is cropped into.
MaxPatches == 2

\* len(np.unique(mask)) of a patch: 1 is a background-only patch.
LabelCounts == {1, 2}

FileDomain == {f \in SeqsUpTo(LabelCounts, MaxPatches) : Len(f) >= 1}

\* Mutant of ArgsInvalid: the test on distance_mask_path is inverted.
ArgsInvalidInverted(m, path) == m = "BCD" /\ ~IsNone(path)

\* Line 747: the configuration the function refuses.
ArgsInvalid(m, path) == m = "BCD" /\ IsNone(path)

RECURSIVE PatchesFrom(_, _, _)
\* Lines 829-989 for the patches k.. of file f: the entries appended to the
\* threshold lists (patches with more than one label, line 841) and to
\* ideal_number_obj (every patch, line 989), and the calls of the model.
PatchesFrom(f, fi, k) ==
    IF k > Len(f) THEN [ths |-> <<>>, ideal |-> <<>>, calls |-> 0]
    ELSE LET rest == PatchesFrom(f, fi, k + 1)
         IN  IF f[k] = 1
             THEN [rest EXCEPT !.ideal = <<f[k]>> \o rest.ideal]
             ELSE [ths |-> << <<fi, k>> >> \o rest.ths,
                   ideal |-> <<f[k]>> \o rest.ideal,
                   calls |-> rest.calls + 1]

\* statistics.mean raises StatisticsError on an empty list.
MeanRaises(l) == Len(l) < 1

\* statistics.stdev raises StatisticsError on fewer than two values.
StdevRaises(l) == Len(l) < 2

\* Lines 991-1039: the exception of the aggregation, "none" if it completes.
StatsError(m, ideal, lmin, ldis) ==
    IF MeanRaises(ideal) THEN "StatisticsError"
    ELSE IF Len(ideal) > 1
         THEN IF MeanRaises(lmin) \/ StdevRaises(lmin) THEN "StatisticsError"
              ELSE IF m = "BCD" /\ (MeanRaises(ldis) \/ StdevRaises(ldis))
                   THEN "StatisticsError"
                   ELSE "none"
         ELSE IF Len(lmin) = 0 THEN "IndexError"
              ELSE IF m = "BCD" /\ Len(ldis) = 0 THEN "IndexError"
                   ELSE "none"

CalIdle ==
    /\ cal_pc = "idle"
    /\ cal_mode = "BC"
    /\ distance_mask_path = None
    /\ dis_channels_ok = TRUE
    /\ files = <<>>
    /\ file_i = 0
    /\ walked = 0
    /\ files_read = 0
    /\ model_calls = 0
    /\ ideal_number_obj = <<>>
    /\ l_th_min = <<>>
    /\ l_th_dis = <<>>
    /\ error = "none"
    /\ returned = <<>>

\* The call (mode passes the assertion of line 746).
CalInit ==
    /\ cal_pc = "start"
    /\ cal_mode \in {"BC", "BCD"}
    /\ distance_mask_path \in {None, Some("distance_mask_path")}
    /\ dis_channels_ok \in BOOLEAN
    /\ files \in SeqsUpTo(FileDomain, MaxFiles)
    /\ file_i = 0
    /\ walked = 0
    /\ files_read = 0
    /\ model_calls = 0
    /\ ideal_number_obj = <<>>
    /\ l_th_min = <<>>
    /\ l_th_dis = <<>>
    /\ error = "none"
    /\ returned = <<>>

\* Lines 746-748: the check of the arguments.
CalCheckArgs ==
    /\ cal_pc = "start"
    /\ IF ArgsInvalid(cal_mode, distance_mask_path)
       THEN /\ cal_pc' = "raised"
            /\ error' = "ValueError"
       ELSE /\ cal_pc' = "list"
            /\ UNCHANGED error
    /\ UNCHANGED <<cal_mode, distance_mask_path, dis_channels_ok, files, file_i, walked,
                   files_read, model_calls, ideal_number_obj, l_th_min, l_th_dis, returned>>
    /\ UNCHANGED calOthers

\* Lines 751-771: the two directories are listed, the lists start empty.
CalList ==
    /\ cal_pc = "list"
    /\ walked' = walked + 2
    /\ ideal_number_obj' = <<>>
    /\ l_th_min' = <<>>
    /\ l_th_dis' = <<>>
    /\ cal_pc' = IF cal_mode = "BCD" THEN "maxdist" ELSE "files"
    /\ file_i' = 0
    /\ UNCHANGED <<cal_mode, distance_mask_path, dis_channels_ok, files, files_read,
                   model_calls, error, returned>>
    /\ UNCHANGED calOthers

\* Lines 773-787 (mode BCD): the distance masks are listed (os.walk(None)
\* raises TypeError) and read one by one; one without 3 channels raises.
CalMaxDistance ==
    /\ cal_pc = "maxdist"
    /\ IF IsNone(distance_mask_path)
       THEN /\ cal_pc' = "raised"
            /\ error' = "TypeError"
            /\ UNCHANGED <<walked, files_read>>
       ELSE /\ walked' = walked + 1
            /\ IF Len(files) > 0 /\ ~dis_channels_ok
               THEN /\ cal_pc' = "raised"
                    /\ error' = "ValueError"
                    /\ files_read' = files_read + 1
               ELSE /\ cal_pc' = "files"
                    /\ files_read' = files_read + Len(files)
                    /\ UNCHANGED error
    /\ UNCHANGED <<cal_mode, distance_mask_path, dis_channels_ok, files, file_i, model_calls,
                   ideal_number_obj, l_th_min, l_th_dis, returned>>
    /\ UNCHANGED calOthers

\* Lines 789-989, one iteration of the loop over the files: the image and
\* the mask are read and cropped, and each patch is searched or skipped.
CalFile ==
    /\ cal_pc = "files"
    /\ file_i < Len(files)
    /\ LET r == PatchesFrom(files[file_i + 1], file_i, 1)
       IN  /\ l_th_min' = l_th_min \o r.ths
           /\ l_th_dis' = IF cal_mode = "BCD" THEN l_th_dis \o r.ths ELSE l_th_dis
           /\ ideal_number_obj' = ideal_number_obj \o r.ideal
           /\ model_calls' = model_calls + r.calls
    /\ files_read' = files_read + 2
    /\ file_i' = file_i + 1
    /\ UNCHANGED <<cal_pc, cal_mode, distance_mask_path, dis_channels_ok, files, walked,
                   error, returned>>
    /\ UNCHANGED calOthers

\* Lines 991-1063: the aggregation over the lists and the return.
CalStats ==
    /\ cal_pc = "files"
    /\ file_i = Len(files)
    /\ LET e == StatsError(cal_mode, ideal_number_obj, l_th_min, l_th_dis)
       IN  IF e # "none"
           THEN /\ cal_pc' = "raised"
                /\ error' = e
                /\ UNCHANGED returned
           ELSE /\ cal_pc' = "returned"
                /\ returned' = l_th_min
                /\ UNCHANGED error
    /\ UNCHANGED <<cal_mode, distance_mask_path, dis_channels_ok, files, file_i, walked,
                   files_read, model_calls, ideal_number_obj, l_th_min, l_th_dis>>
    /\ UNCHANGED calOthers

CalNext == CalCheckArgs \/ CalList \/ CalMaxDistance \/ CalFile \/ CalStats

\* ---- claims about the run ------------------------------------------------

\* The patches <<file, patch>> with more than one label, in reading order.
RECURSIVE NonDegenerateFrom(_)
NonDegenerateFrom(fi) ==
    IF fi >= Len(files) THEN <<>>
    ELSE PatchesFrom(files[fi + 1], fi, 1).ths \o NonDegenerateFrom(fi + 1)

ConfigAccepted ==
    ~(cal_mode = "BCD" /\ (IsNone(distance_mask_path) \/ ~dis_channels_ok))

\* C8: with at least one patch that is not background-only (and arguments
\* and distance masks the function accepts), the run never raises: once it
\* has ended it has returned, with thresholds aggregated over exactly the
\* patches that are not background-only.
C8_DegenerateNeverRaises ==
    (ConfigAccepted /\ Len(NonDegenerateFrom(0)) >= 1 /\ cal_pc \in {"raised", "returned"}) =>
        /\ cal_pc = "returned"
        /\ error = "none"
        /\ returned = NonDegenerateFrom(0)

\* C9: mode 'BCD' without distance_mask_path raises ValueError at once: no
\* directory listed, no sample file read, no call of the model, no list
\* populated.
C9_BCDWithoutDistanceRaisesFirst ==
    (cal_mode = "BCD" /\ IsNone(distance_mask_path) /\ cal_pc # "start") =>
        /\ cal_pc = "raised"
        /\ error = "ValueError"
        /\ walked = 0
        /\ files_read = 0
        /\ model_calls = 0
        /\ ideal_number_obj = <<>>
        /\ l_th_min = <<>>
        /\ l_th_dis = <<>>

\* Reached: the call was refused although there are files with objects.
C9_Witness ==
    /\ cal_mode = "BCD"
    /\ IsNone(distance_mask_path)
    /\ cal_pc = "raised"
    /\ Len(files) = 2
    /\ Len(NonDegenerateFrom(0)) >= 1

\* ========================================================================
\* watershed_by_channels (post_processing.py 190-369), 2D data, the modes
\* with a foreground mask: BC, BCM, BP, BCD.
\* ========================================================================

\* Shape of the image: ImgRows x ImgW voxels, raveled row by row into 1..NVox.
ImgW == 2

ImgRows == {0, 1}

NVox == Cardinality(ImgRows) * ImgW

Vox == 1..NVox

Row(v) == (v - 1) \div ImgW

Col(v) == (v - 1) % ImgW

\* Values of a channel of data, values of a threshold, radii of a disk.
Levels == {0, 1, 2}

ThLevels == {0, 1}

Radii == {0, 1}

AllZero == [v \in Vox |-> 0]

AllFalse == [v \in Vox |-> FALSE]

\* skimage.morphology.disk(radius), as offsets from its centre.
Disk(r) == {o \in (-r..r) \X (-r..r) : o[1] * o[1] + o[2] * o[2] <= r * r}

\* The voxel at offset o of v, or 0 outside the image.
Shift(v, o) ==
    IF (Row(v) + o[1]) \in ImgRows /\ (Col(v) + o[2]) \in 0..(ImgW - 1)
    THEN v + o[1] * ImgW + o[2]
    ELSE 0

\* The voxels of the image under disk(r) centred at v, and whether the
\* whole disk lies inside the image.
DiskVox == [r \in Radii |-> [v \in Vox |-> {Shift(v, o) : o \in Disk(r)} \ {0}]]

DiskInside == [r \in Radii |-> [v \in Vox |-> \A o \in Disk(r) : Shift(v, o) # 0]]

\* scipy.ndimage binary_dilation(input, structure), border_value = 0.
BinaryDilation(img, r) == [v \in Vox |-> \E w \in DiskVox[r][v] : img[w]]

\* scipy.ndimage binary_erosion(input, structure), border_value = 0: a
\* voxel whose disk leaves the image is eroded.
BinaryErosion(img, r) ==
    [v \in Vox |-> DiskInside[r][v] /\ \A w \in DiskVox[r][v] : img[w]]

ToBool(m) == [v \in Vox |-> m[v] # 0]

RECURSIVE ApplyMorph(_, _, _, _)
\* Lines 269-272: the seed operations k.. of the sequence, in order.
ApplyMorph(img, seq, radii, k) ==
    IF k > Len(seq) THEN img
    ELSE ApplyMorph(IF seq[k] = "dilate" THEN BinaryDilation(img, radii[k])
                    ELSE BinaryErosion(img, radii[k]),
                    seq, radii, k + 1)

\* Lines 274-276: the foreground is dilated with fore_erosion_radius, then
\* eroded with fore_dilation_radius.
CloseForeground(fg, o) ==
    IF o.erode_and_dilate_foreground
    THEN BinaryErosion(BinaryDilation(fg, o.fore_erosion_radius), o.fore_dilation_radius)
    ELSE fg

\* The voxels sharing a face with v (connectivity 1), in raveled order.
Neighbours ==
    [v \in Vox |->
        LET cand == << <<-1, 0>>, <<0, -1>>, <<0, 1>>, <<1, 0>> >>
        IN  SelectSeq([k \in 1..4 |-> Shift(v, cand[k])], LAMBDA w : w # 0)]

NeighbourSet == [v \in Vox |-> {Neighbours[v][k] : k \in 1..Len(Neighbours[v])}]

RECURSIVE Component(_, _)
\* The voxels of S connected to the set from through voxels of S.
Component(S, from) ==
    LET more == {w \in S \ from : \E v \in from : w \in NeighbourSet[v]}
    IN  IF more = {} THEN from ELSE Component(S, from \cup more)

RECURSIVE LabelFrom(_, _, _)
\* skimage.measure.label(img, connectivity=1): the components numbered in
\* the order of their first voxel.
LabelFrom(S, out, n) ==
    IF S = {} THEN out
    ELSE LET first == CHOOSE v \in S : \A w \in S : v <= w
             comp == Component(S, {first})
         IN  LabelFrom(S \ comp, [v \in Vox |-> IF v \in comp THEN n ELSE out[v]], n + 1)

Label(img) == LabelFrom({v \in Vox : img[v]}, AllZero, 1)

\* Mutant of RemoveSmallObjects: the labels carried by the fewest voxels are
\* set to 0, whatever min_size.
RemoveSmallestObjects(ar, min_size) ==
    LET size(v) == Cardinality({w \in Vox : ar[w] = ar[v]})
    IN  [v \in Vox |-> IF \A w \in Vox : ar[w] # 0 => size(v) <= size(w) THEN 0 ELSE ar[v]]

\* skimage remove_small_objects on a label array: the labels carried by
\* fewer than min_size voxels are set to 0.
RemoveSmallObjects(ar, min_size) ==
    [v \in Vox |-> IF Cardinality({w \in Vox : ar[w] = ar[v]}) < min_size THEN 0 ELSE ar[v]]

\* scipy distance_transform_edt, squared: distance to the nearest False
\* voxel (a constant above every distance when there is none).
DistanceTransformEdt(fg) ==
    LET bg == {w \in Vox : ~fg[w]}
        sq(v, w) == (Row(v) - Row(w)) * (Row(v) - Row(w)) + (Col(v) - Col(w)) * (Col(v) - Col(w))
    IN  [v \in Vox |->
            IF ~fg[v] THEN 0
            ELSE IF bg = {} THEN NVox * NVox
            ELSE CHOOSE d \in {sq(v, w) : w \in bg} : \A w \in bg : d <= sq(v, w)]

\* ---- skimage.segmentation.watershed, markers given, with a mask ----

\* The entry the heap pops: smallest value, then smallest age (then index).
HeapMin(heap) ==
    CHOOSE e \in heap : \A f \in heap :
        \/ e.value < f.value
        \/ e.value = f.value /\ e.age < f.age
        \/ e.value = f.value /\ e.age = f.age /\ e.index <= f.index

RECURSIVE Spread(_, _, _, _, _)
\* The neighbours k.. of the popped entry e: one inside the mask with no
\* label takes the label of e and is pushed.
Spread(image, mask, e, st, k) ==
    IF k > Len(Neighbours[e.index]) THEN st
    ELSE LET w == Neighbours[e.index][k]
         IN  IF ~mask[w] \/ st.output[w] # 0
             THEN Spread(image, mask, e, st, k + 1)
             ELSE Spread(image, mask, e,
                         [output |-> [st.output EXCEPT ![w] = st.output[e.index]],
                          heap |-> st.heap \cup {[value |-> image[w], age |-> st.age + 1, index |-> w]},
                          age |-> st.age + 1],
                         k + 1)

RECURSIVE Flood(_, _, _)
Flood(image, mask, st) ==
    IF st.heap = {} THEN st.output
    ELSE LET e == HeapMin(st.heap)
         IN  Flood(image, mask,
                   Spread(image, mask, e, [st EXCEPT !.heap = st.heap \ {e}], 1))

\* watershed(image, markers, mask=mask): the markers outside the mask are
\* dropped (markers * mask), the others flood the mask in order of image.
Watershed(image, markers, mask) ==
    LET m == [v \in Vox |-> IF mask[v] THEN markers[v] ELSE 0]
    IN  Flood(image, mask,
              [output |-> m,
               heap |-> {[value |-> image[v], age |-> 0, index |-> v] : v \in {w \in Vox : m[w] # 0}},
               age |-> 0])

\* Mutant of WatershedCall: the mask is not passed.
WatershedCallNoMask(sem, seeds, fg) ==
    Watershed([v \in Vox |-> -sem[v]], seeds, [v \in Vox |-> TRUE])

\* Line 344.
WatershedCall(sem, seeds, fg) ==
    Watershed([v \in Vox |-> -sem[v]], seeds, fg)

MaxOf(m) == CHOOSE x \in {m[v] : v \in Vox} : \A v \in Vox : m[v] <= x

\* Lines 351-356: the dtype chosen for max_value.
ChooseDtype(mv) ==
    IF mv < 255 THEN "uint8"
    ELSE IF mv < 65535 THEN "uint16"
    ELSE "uint32"

\* ---- the seeds and the foreground of one voxel ----

\* Mutant of SeedOf: the seed does not look at channel 0.
SeedOfContourOnly(ch, t, d0, d1, d2) ==
    CASE ch \in {"BC", "BCM"} -> d1 < t.TH2
      [] ch = "BP" -> d1 > t.TH_POINTS
      [] OTHER -> d1 < t.TH2 /\ d2 > t.TH4

\* Lines 283, 292, 302: seed_map at a voxel with channel values d0, d1, d2.
SeedOf(ch, t, d0, d1, d2) ==
    CASE ch \in {"BC", "BCM"} -> d0 > t.TH1 /\ d1 < t.TH2
      [] ch = "BP" -> d1 > t.TH_POINTS
      [] OTHER -> d0 > t.TH1 /\ d1 < t.TH2 /\ d2 > t.TH4

\* Lines 284, 293, 303: foreground at that voxel.
ForegroundOf(ch, t, d0, d1, d2) ==
    CASE ch \in {"BC", "BCM", "BP"} -> d0 > t.TH3
      [] OTHER -> d0 > t.TH3 /\ d2 > t.TH5

NoThs == [TH1 |-> 0, TH2 |-> 0, TH3 |-> 0, TH4 |-> 0, TH5 |-> 0, TH_POINTS |-> 0]

\* A seed threshold and a foreground threshold on the same channel: equal,
\* the seed one above, the seed one below.
ThPairs == {<<a, c>> \in ThLevels \X ThLevels : <<a, c>> # <<0, 0>>}

\* The thresholds a mode reads (the others are not looked up).
ThsDomain(ch) ==
    CASE ch = "BC" ->
           {[NoThs EXCEPT !.TH1 = p[1], !.TH3 = p[2], !.TH2 = b] : p \in ThPairs, b \in ThLevels}
      [] ch = "BCM" ->
           {[NoThs EXCEPT !.TH1 = p[1], !.TH3 = p[2], !.TH2 = 1] : p \in ThPairs}
      [] ch = "BP" ->
           {[NoThs EXCEPT !.TH_POINTS = a, !.TH3 = 1] : a \in ThLevels}
      [] OTHER ->
           {[NoThs EXCEPT !.TH1 = p[1], !.TH3 = p[2], !.TH2 = 1, !.TH4 = q[1], !.TH5 = q[2]] :
               p \in ThPairs, q \in {<<1, 1>>, <<0, 1>>}}

\* The optional arguments: the defaults of line 190 ...
DefaultOpts ==
    [seed_morph_sequence |-> <<>>, seed_morph_radius |-> <<>>,
     erode_and_dilate_foreground |-> FALSE, fore_erosion_radius |-> 1,
     fore_dilation_radius |-> 1,
     remove_before |-> FALSE, thres_small_before |-> 2,
     remove_after |-> FALSE, thres_small_after |-> 2]

\* ... the calls that ask for seed or foreground morphology ...
MorphOpts ==
    {[DefaultOpts EXCEPT !.seed_morph_sequence = sq[1], !.seed_morph_radius = sq[2],
                         !.erode_and_dilate_foreground = fg[1],
                         !.fore_erosion_radius = fg[2], !.fore_dilation_radius = fg[3]] :
        sq \in {<< <<>>, <<>> >>, << <<"erode">>, <<1>> >>, << <<"dilate">>, <<1>> >>},
        fg \in {<<FALSE, 1, 1>>, <<TRUE, 1, 1>>, <<TRUE, 1, 0>>}}

\* ... and the calls that ask for the removal of small objects.
RemoveOpts ==
    {[DefaultOpts EXCEPT !.remove_before = rb, !.remove_after = ra] :
        rb \in BOOLEAN, ra \in BOOLEAN}

OptsDomain == MorphOpts \cup RemoveOpts

WsIdle ==
    /\ ws_pc = "idle"
    /\ channels = "BC"
    /\ ws_ths = NoThs
    /\ scan = 0
    /\ seed_map = AllZero
    /\ foreground = AllFalse
    /\ semantic = AllZero
    /\ opts = DefaultOpts
    /\ segm = AllZero
    /\ max_value = 0
    /\ dtype = "none"

\* The call, at line 282.
WsInit ==
    /\ ws_pc = "threshold"
    /\ channels \in {"BC", "BCM", "BP", "BCD"}
    /\ ws_ths \in ThsDomain(channels)
    /\ scan = 0
    /\ seed_map = AllZero
    /\ foreground = AllFalse
    /\ semantic = AllZero
    /\ opts = DefaultOpts
    /\ segm = AllZero
    /\ max_value = 0
    /\ dtype = "none"

\* Lines 283-284, 292-293, 301-303, one voxel of the element-wise
\* comparisons: the voxel's channel values are read from data.
WsThreshold ==
    /\ ws_pc = "threshold"
    /\ scan < NVox
    /\ \E d0 \in Levels, d1 \in Levels, d2 \in Levels :
         /\ seed_map' = [seed_map EXCEPT ![scan + 1] =
                            IF SeedOf(channels, ws_ths, d0, d1, d2) THEN 1 ELSE 0]
         /\ foreground' = [foreground EXCEPT ![scan + 1] =
                            ForegroundOf(channels, ws_ths, d0, d1, d2)]
         /\ semantic' = IF channels = "BCD"
                        THEN [semantic EXCEPT ![scan + 1] = d0]
                        ELSE semantic
    /\ scan' = scan + 1
    /\ UNCHANGED <<ws_pc, channels, ws_ths, opts, segm, max_value, dtype>>
    /\ UNCHANGED wsOthers

\* Lines 286-290, 295-299, 304-306 and 341-342: erode_seed_and_foreground
\* when asked for, the distance transform (BC, BCM, BP), the labelling of
\* the seeds and the removal of the small seeds.
WsSeeds ==
    /\ ws_pc = "threshold"
    /\ scan = NVox
    /\ \E o \in OptsDomain :
         LET seeds1 == ApplyMorph(ToBool(seed_map), o.seed_morph_sequence,
                                  o.seed_morph_radius, 1)
             fore1 == CloseForeground(foreground, o)
             seeds2 == Label(seeds1)
         IN  /\ opts' = o
             /\ foreground' = fore1
             /\ semantic' = IF channels = "BCD" THEN semantic
                            ELSE DistanceTransformEdt(fore1)
             /\ seed_map' = IF o.remove_before
                            THEN RemoveSmallObjects(seeds2, o.thres_small_before)
                            ELSE seeds2
    /\ ws_pc' = "watershed"
    /\ UNCHANGED <<channels, ws_ths, scan, segm, max_value, dtype>>
    /\ UNCHANGED wsOthers

\* Lines 344-369: the watershed, the removal of the small objects, the
\* dtype, the return.
WsGrow ==
    /\ ws_pc = "watershed"
    /\ LET grown == WatershedCall(semantic, seed_map, foreground)
       IN  segm' = IF opts.remove_after
                   THEN RemoveSmallObjects(grown, opts.thres_small_after)
                   ELSE grown
    /\ max_value' = MaxOf(segm')
    /\ dtype' = ChooseDtype(max_value')
    /\ ws_pc' = "done"
    /\ UNCHANGED <<channels, ws_ths, scan, seed_map, foreground, semantic, opts>>
    /\ UNCHANGED wsOthers

WsNext == WsThreshold \/ WsSeeds \/ WsGrow

\* ---- claims on watershed_by_channels ----

ForegroundSet == {v \in Vox : foreground[v]}

Labelled == {v \in Vox : segm[v] # 0}

\* The seeds that lie in the foreground.
SeedsInForeground == {v \in ForegroundSet : seed_map[v] # 0}

\* C1: in the masked modes with remove_after disabled, the voxels that carry
\* a label after growth are exactly the foreground voxels connected through
\* foreground voxels to a seed: nothing outside the foreground is labelled
\* and no foreground voxel reachable from a seed stays 0.
C1_LabelledIsReachableForeground ==
    (ws_pc = "done" /\ ~opts.remove_after)
        => Labelled = Component(ForegroundSet, SeedsInForeground)

\* A finished call where a voxel that was no seed got its label by growth
\* while a seed voxel outside the foreground stayed 0.
C1_Witness ==
    /\ ws_pc = "done"
    /\ ~opts.remove_after
    /\ \E v \in Vox : segm[v] # 0 /\ seed_map[v] = 0
    /\ \E v \in Vox : segm[v] = 0 /\ seed_map[v] # 0 /\ ~foreground[v]

InSeedFromForegroundMode == channels \in {"BC", "BCM", "BCD"}

\* C2: in BC, BCM and BCD, whatever the thresholds, every voxel with a
\* positive label in the seed map handed to the watershed has foreground
\* true.
C2_SeedsInsideForeground ==
    (ws_pc = "watershed" /\ InSeedFromForegroundMode)
        => \A v \in Vox : seed_map[v] > 0 => foreground[v]

\* The seed thresholds are not below the foreground thresholds of the same
\* channel.
ThsOrdered ==
    /\ ws_ths.TH1 >= ws_ths.TH3
    /\ channels = "BCD" => ws_ths.TH4 >= ws_ths.TH5

\* The seeds are not dilated and the foreground is not eroded.
NoSeedGrowthNoForegroundLoss ==
    /\ \A k \in 1..Len(opts.seed_morph_sequence) : opts.seed_morph_sequence[k] # "dilate"
    /\ ~opts.erode_and_dilate_foreground \/ opts.fore_dilation_radius = 0

\* C2 (amended): in BC, BCM and BCD every positive seed voxel handed to the
\* watershed has foreground true when TH1 >= TH3 (and TH4 >= TH5 in BCD),
\* the seeds are not dilated and the foreground is not eroded.
C2_SeedsInsideForegroundWhenOrdered ==
    (ws_pc = "watershed" /\ InSeedFromForegroundMode /\ ThsOrdered
        /\ NoSeedGrowthNoForegroundLoss)
        => \A v \in Vox : seed_map[v] > 0 => foreground[v]

\* A BCD call with ordered thresholds about to grow two seeds inside a
\* foreground that also holds a voxel that is no seed.
C2_Witness ==
    /\ ws_pc = "watershed"
    /\ channels = "BCD"
    /\ ThsOrdered
    /\ NoSeedGrowthNoForegroundLoss
    /\ \E v \in Vox : seed_map[v] = 2
    /\ \E v \in Vox : foreground[v] /\ seed_map[v] = 0

\* ========================================================================
\* The dtype of the returned labels (post_processing.py 349-356), over the
\* values max_value can take.
\* ========================================================================

MaxValueDomain == (0..300) \cup (65400..65700)

DtIdle ==
    /\ dt_pc = "idle"
    /\ dt_max = 0
    /\ dt_dtype = "none"

\* Line 350: max_value is known.
DtInit ==
    /\ dt_pc = "choose"
    /\ dt_max \in MaxValueDomain
    /\ dt_dtype = "none"

\* Lines 351-356.
DtChoose ==
    /\ dt_pc = "choose"
    /\ dt_dtype' = ChooseDtype(dt_max)
    /\ dt_pc' = "cast"
    /\ UNCHANGED dt_max
    /\ UNCHANGED dtOthers

DtNext == DtChoose

\* C3: the returned labels have the smallest unsigned width that holds the
\* maximum label: uint8 up to 255, uint16 from 256 to 65535, uint32 above.
C3_SmallestUnsignedWidth ==
    dt_pc = "cast" =>
        dt_dtype = (IF dt_max <= 255 THEN "uint8"
                    ELSE IF dt_max <= 65535 THEN "uint16"
                    ELSE "uint32")

\* ========================================================================
\* ensemble8_2d_predictions (post_processing.py 404-532) and
\* ensemble16_3d_predictions (535-687), one channel, pred_func the identity,
\* n_classes = 1.  An array is its shape (z, y, x) and its values; a 2D
\* image (y, x) is an array with z = 1.
\* ========================================================================

\* Largest side (y or x) of the input.
MaxSide == 3

\* Depth z of a 3D input.
Depths == {2}

BatchSizes == {1, 3}

\* The values are multiples of PixelUnit, so that the mean of 8 or of 16 of
\* them is a whole number.
PixelUnit == 16

Arr(Z, Y, X, F(_, _, _)) ==
    [shape |-> <<Z, Y, X>>,
     d |-> [q \in (1..Z) \X (1..Y) \X (1..X) |-> F(q[1], q[2], q[3])]]

EmptyArr == [shape |-> <<0, 0, 0>>, d |-> <<>>]

At(a, k, i, j) == a.d[<<k, i, j>>]

\* np.pad(..., 'reflect'): the index of the source of the q-th element
\* before the first one, on an axis of length L.
ReflectIdx(q, L) ==
    IF L = 1 THEN 1
    ELSE LET m == q % (2 * (L - 1))
         IN  IF m <= L - 1 THEN m + 1 ELSE 2 * (L - 1) - m + 1

\* np.pad(a, n elements before axis y / axis x, 'reflect').
PadY(a, n) ==
    Arr(a.shape[1], a.shape[2] + n, a.shape[3],
        LAMBDA k, i, j : IF i > n THEN At(a, k, i - n, j)
                         ELSE At(a, k, ReflectIdx(n - i + 1, a.shape[2]), j))

PadX(a, n) ==
    Arr(a.shape[1], a.shape[2], a.shape[3] + n,
        LAMBDA k, i, j : IF j > n THEN At(a, k, i, j - n)
                         ELSE At(a, k, i, ReflectIdx(n - j + 1, a.shape[3])))

\* a[:, n:, :] and a[:, :, n:].
DropY(a, n) ==
    Arr(a.shape[1], a.shape[2] - n, a.shape[3], LAMBDA k, i, j : At(a, k, i + n, j))

DropX(a, n) ==
    Arr(a.shape[1], a.shape[2], a.shape[3] - n, LAMBDA k, i, j : At(a, k, i, j + n))

\* a[:, :-n, :] and a[:, :, :-n] (used by the mutants only).
DropYBack(a, n) ==
    Arr(a.shape[1], a.shape[2] - n, a.shape[3], LAMBDA k, i, j : At(a, k, i, j))

DropXBack(a, n) ==
    Arr(a.shape[1], a.shape[2], a.shape[3] - n, LAMBDA k, i, j : At(a, k, i, j))

\* np.flip along z, y, x.
FlipZ(a) ==
    Arr(a.shape[1], a.shape[2], a.shape[3],
        LAMBDA k, i, j : At(a, a.shape[1] + 1 - k, i, j))

FlipY(a) ==
    Arr(a.shape[1], a.shape[2], a.shape[3],
        LAMBDA k, i, j : At(a, k, a.shape[2] + 1 - i, j))

FlipX(a) ==
    Arr(a.shape[1], a.shape[2], a.shape[3],
        LAMBDA k, i, j : At(a, k, i, a.shape[3] + 1 - j))

\* One quarter turn of every (y, x) plane: out[i, j] = a[j, X + 1 - i].
QuarterTurn(a) ==
    Arr(a.shape[1], a.shape[3], a.shape[2],
        LAMBDA k, i, j : At(a, k, j, a.shape[3] + 1 - i))

RECURSIVE Rot90(_, _)
\* np.rot90(a, axes=(0, 1), k=n) of a 2D image.
Rot90(a, n) == IF n % 4 = 0 THEN a ELSE QuarterTurn(Rot90(a, (n % 4) - 1))

\* scipy.ndimage.rotate(a, axes=(2, 1), angle=angle, reshape=False) of a
\* volume with square planes, for a multiple of 90 degrees: every output
\* voxel is the input voxel the turn maps it to.
Rotate(a, angle) == Rot90(a, angle \div 90)

\* Lines 452-456: the image padded to a square.
Pad2D(img) ==
    LET p == img.shape[2] - img.shape[3]
    IN  IF p < 0 THEN PadY(img, -p) ELSE PadX(img, p)

\* Lines 459-467: the 8 combinations of the image.
Augment2D(img) ==
    LET img_aux == FlipX(img)
    IN  <<img, Rot90(img, 1), Rot90(img, 2), Rot90(img, 3),
          img_aux, Rot90(img_aux, 1), Rot90(img_aux, 2), Rot90(img_aux, 3)>>

\* Lines 502-509: the combinations undone.
Undo2D(dec) ==
    <<dec[1], Rot90(dec[2], 3), Rot90(dec[3], 2), Rot90(dec[4], 1),
      FlipX(dec[5]), FlipX(Rot90(dec[6], 3)), FlipX(Rot90(dec[7], 2)),
      FlipX(Rot90(dec[8], 1))>>

\* Mutant of Unpad2D: the padding is stripped at the other end.
Unpad2DBack(a, p) == IF p < 0 THEN DropYBack(a, -p) ELSE DropXBack(a, p)

\* Lines 527-530: the padding undone.
Unpad2D(a, p) == IF p < 0 THEN DropY(a, -p) ELSE DropX(a, p)

\* Lines 583-587: the volume padded to square planes.
Pad3D(vol) ==
    LET p == vol.shape[3] - vol.shape[2]
    IN  IF p < 0 THEN PadX(vol, -p) ELSE PadY(vol, p)

\* The volume and its three turns (lines 590-593 and alike).
Turns(v) == <<v, Rotate(v, 90), Rotate(v, 180), Rotate(v, 270)>>

\* Lines 590-608: the 16 combinations of the volume.
Augment3D(volume) ==
    Turns(volume) \o Turns(FlipZ(volume)) \o Turns(FlipY(volume)) \o Turns(FlipX(volume))

\* Four decoded volumes from position b turned back (lines 647-650).
TurnsBack(dec, b) ==
    <<dec[b], Rotate(dec[b + 1], -90), Rotate(dec[b + 2], -180), Rotate(dec[b + 3], -270)>>

\* Lines 647-662: the combinations undone.
Undo3D(dec) ==
    LET z == TurnsBack(dec, 5)
        y == TurnsBack(dec, 9)
        x == TurnsBack(dec, 13)
    IN  TurnsBack(dec, 1)
        \o [k \in 1..4 |-> FlipZ(z[k])]
        \o [k \in 1..4 |-> FlipY(y[k])]
        \o [k \in 1..4 |-> FlipX(x[k])]

\* Lines 682-685: the padding undone.
Unpad3D(a, p) == IF p < 0 THEN DropX(a, -p) ELSE DropY(a, p)

RECURSIVE SumAt(_, _, _)
SumAt(arrs, q, n) == IF n = 0 THEN 0 ELSE arrs[n].d[q] + SumAt(arrs, q, n - 1)

\* np.mean(out, axis=0).
Mean(arrs) ==
    [shape |-> arrs[1].shape,
     d |-> [q \in DOMAIN arrs[1].d |-> SumAt(arrs, q, Len(arrs)) \div Len(arrs)]]

\* pred_func: returns its batch unchanged.
PredFunc(batch) == batch

\* The inputs: per shape, the image whose values number its voxels and the
\* images with a single bright voxel.
Ramp(Z, Y, X) == Arr(Z, Y, X, LAMBDA k, i, j : PixelUnit * (((k - 1) * Y + (i - 1)) * X + j))

Impulse(Z, Y, X, q) ==
    Arr(Z, Y, X, LAMBDA k, i, j : IF <<k, i, j>> = q THEN PixelUnit ELSE 0)

ImagesOf(Z) ==
    UNION {{Ramp(Z, Y, X)} \cup {Impulse(Z, Y, X, q) : q \in (1..Z) \X (1..Y) \X (1..X)} :
           Y \in 1..MaxSide, X \in 1..MaxSide}

EnsIdle ==
    /\ ens_pc = "idle"
    /\ ens_fn = "none"
    /\ o_img = EmptyArr
    /\ batch_size_value = 0
    /\ pad_to_square = 0
    /\ total_img = <<>>
    /\ decoded = <<>>
    /\ ens_out = EmptyArr

\* The call of one of the two functions.
EnsInit ==
    /\ ens_pc = "augment"
    /\ ens_fn \in {"ensemble8_2d_predictions", "ensemble16_3d_predictions"}
    /\ o_img \in IF ens_fn = "ensemble8_2d_predictions" THEN ImagesOf(1)
                 ELSE UNION {ImagesOf(Z) : Z \in Depths}
    /\ batch_size_value \in BatchSizes
    /\ pad_to_square = 0
    /\ total_img = <<>>
    /\ decoded = <<>>
    /\ ens_out = EmptyArr

\* Lines 443-475 and 574-617: pad to a square, build the combinations.
EnsAugment ==
    /\ ens_pc = "augment"
    /\ IF ens_fn = "ensemble8_2d_predictions"
       THEN /\ pad_to_square' = o_img.shape[2] - o_img.shape[3]
            /\ total_img' = Augment2D(Pad2D(o_img))
       ELSE /\ pad_to_square' = o_img.shape[3] - o_img.shape[2]
            /\ total_img' = Augment3D(Pad3D(o_img))
    /\ ens_pc' = "predict"
    /\ UNCHANGED <<ens_fn, o_img, batch_size_value, decoded, ens_out>>
    /\ UNCHANGED ensOthers

\* Lines 480-491 and 622-635: one batch through pred_func.
EnsPredict ==
    /\ ens_pc = "predict"
    /\ Len(decoded) < Len(total_img)
    /\ LET from == Len(decoded) + 1
           top == Min2(Len(decoded) + batch_size_value, Len(total_img))
       IN  decoded' = decoded \o PredFunc(SubSeq(total_img, from, top))
    /\ UNCHANGED <<ens_pc, ens_fn, o_img, batch_size_value, pad_to_square, total_img, ens_out>>
    /\ UNCHANGED ensOthers

\* Lines 494-532 and 637-687: undo the combinations and the padding, mean.
EnsUndo ==
    /\ ens_pc = "predict"
    /\ Len(decoded) = Len(total_img)
    /\ ens_out' =
         IF ens_fn = "ensemble8_2d_predictions"
         THEN LET out_img == Undo2D(decoded)
              IN  Mean([k \in 1..Len(out_img) |-> Unpad2D(out_img[k], pad_to_square)])
         ELSE LET out_vols == Undo3D(decoded)
              IN  Mean([k \in 1..Len(out_vols) |-> Unpad3D(out_vols[k], pad_to_square)])
    /\ ens_pc' = "done"
    /\ UNCHANGED <<ens_fn, o_img, batch_size_value, pad_to_square, total_img, decoded>>
    /\ UNCHANGED ensOthers

EnsNext == EnsAugment \/ EnsPredict \/ EnsUndo

LabelValues == {0, 1, 2}

SizeThresholds == {1, 2, 3}

RsIdle ==
    /\ rs_pc = "idle"
    /\ rs_ar = AllZero
    /\ rs_min_size = 0
    /\ rs_once = AllZero
    /\ rs_twice = AllZero

RsInit ==
    /\ rs_pc = "start"
    /\ rs_ar \in [Vox -> LabelValues]
    /\ rs_min_size \in SizeThresholds
    /\ rs_once = AllZero
    /\ rs_twice = AllZero

\* Line 342 / 347: the removal applied to the label map.
RsRemove ==
    /\ rs_pc = "start"
    /\ rs_once' = RemoveSmallObjects(rs_ar, rs_min_size)
    /\ rs_pc' = "once"
    /\ UNCHANGED <<rs_ar, rs_min_size, rs_twice>>
    /\ UNCHANGED rsOthers

\* The same call on its own result.
RsRemoveAgain ==
    /\ rs_pc = "once"
    /\ rs_twice' = RemoveSmallObjects(rs_once, rs_min_size)
    /\ rs_pc' = "twice"
    /\ UNCHANGED <<rs_ar, rs_min_size, rs_once>>
    /\ UNCHANGED rsOthers

RsNext == RsRemove \/ RsRemoveAgain

\* C13: the removal of small objects is idempotent: applied twice with the
\* same threshold it gives the label map it gives applied once.
C13_RemovalIdempotent == rs_pc = "twice" => rs_twice = rs_once

\* Reached: the first application removed one object and kept another, and
\* the second has run.
C13_Witness ==
    /\ rs_pc = "twice"
    /\ rs_once # rs_ar
    /\ \E v \in Vox : rs_once[v] # 0
    /\ rs_twice = rs_once

\* ========================================================================
\* repare_large_blobs (post_processing.py 1923-2024), 2D images.
\* ========================================================================

\* Largest label value of the input image.
MaxBlobLabel == 4

BlobThresholds == {1, 4, 9}

\* The image has 3 rows and 5 columns; a pixel is <<row, column>>.
BlRows == 0..2

BlCols == 0..4

BlPix == BlRows \X BlCols

\* The inputs: five groups of pixels, each group given one value: a ring,
\* the pixel it encloses, and to its right a pixel beside the ring, a pixel
\* further right, and the four corners around these two.
BlRing == {q \in BlPix : q[2] <= 2 /\ q # <<1, 1>>}

BlCorners == {<<0, 3>>, <<0, 4>>, <<2, 3>>, <<2, 4>>}

BlobImage(ring, centre, beside, far, corners) ==
    [q \in BlPix |->
        IF q \in BlRing THEN ring
        ELSE IF q = <<1, 1>> THEN centre
        ELSE IF q = <<1, 3>> THEN beside
        ELSE IF q = <<1, 4>> THEN far
        ELSE corners]

BlobImages ==
    {BlobImage(a, b, c, d, e) :
        a \in 0..MaxBlobLabel, b \in 0..MaxBlobLabel, c \in 0..MaxBlobLabel,
        d \in 0..MaxBlobLabel, e \in 0..MaxBlobLabel}

\* bbox of regionprops: rows sy..fy-1, columns sx..fx-1.
BBoxOf(S) ==
    [sy |-> CHOOSE r \in BlRows : (\E q \in S : q[1] = r) /\ \A q \in S : r <= q[1],
     fy |-> 1 + CHOOSE r \in BlRows : (\E q \in S : q[1] = r) /\ \A q \in S : r >= q[1],
     sx |-> CHOOSE c \in BlCols : (\E q \in S : q[2] = c) /\ \A q \in S : c <= q[2],
     fx |-> 1 + CHOOSE c \in BlCols : (\E q \in S : q[2] = c) /\ \A q \in S : c >= q[2]]

InBox(q, b) == b.sy <= q[1] /\ q[1] < b.fy /\ b.sx <= q[2] /\ q[2] < b.fx

BoxPix(b) == {q \in BlPix : InBox(q, b)}

RECURSIVE SortedSeq(_)
SortedSeq(S) ==
    IF S = {} THEN <<>>
    ELSE LET x == CHOOSE y \in S : \A z \in S : y <= z
         IN  <<x>> \o SortedSeq(S \ {x})

\* Line 1970: regionprops_table(img, properties=('label', 'area', 'bbox')).
RegionProps(im) ==
    LET labs == SortedSeq({im[q] : q \in BlPix} \ {0})
    IN  [k \in 1..Len(labs) |->
            LET S == {q \in BlPix : im[q] = labs[k]}
            IN  [label |-> labs[k], area |-> Cardinality(S), bbox |-> BBoxOf(S)]]

Clamp(x, lo, hi) == IF x < lo THEN lo ELSE IF x > hi THEN hi ELSE x

RECURSIVE Distinct(_, _, _)
\* The values of cand[i..] not yet in acc, appended in order.
Distinct(cand, i, acc) ==
    IF i > Len(cand) THEN acc
    ELSE Distinct(cand, i + 1,
                  IF \E k \in 1..Len(acc) : acc[k] = cand[i] THEN acc
                  ELSE Append(acc, cand[i]))

\* Lines 1960-1967: the values other than 0 and label found at most one
\* pixel away (8-neighbourhood, clamped to the patch) from a pixel of label,
\* in the order the loops meet them.
FindNeigbors(im, b, label) ==
    LET pts == SortedSeq({q[1] * Cardinality(BlCols) + q[2] :
                            q \in {w \in BoxPix(b) : im[w] = label}})
        value(t) ==
            LET pt == pts[((t - 1) \div 9) + 1]
                i == (((t - 1) % 9) \div 3) - 1
                j == ((t - 1) % 3) - 1
                y == Clamp((pt \div Cardinality(BlCols)) + i, b.sy, b.fy - 1)
                x == Clamp((pt % Cardinality(BlCols)) + j, b.sx, b.fx - 1)
            IN  im[<<y, x>>]
        cand == [t \in 1..(9 * Len(pts)) |-> value(t)]
    IN  Distinct(SelectSeq(cand, LAMBDA v : v # 0 /\ v # label), 1, <<>>)

\* Mutant of ContainedInLargeBlob: the check is skipped.
ContainedAlways(nb, b) == TRUE

\* Lines 1998-2001: the neighbour's bbox inside the large instance's bbox.
ContainedInLargeBlob(nb, b) ==
    ~(nb.sy < b.sy \/ nb.fy > b.fy \/ nb.sx < b.sx \/ nb.fx > b.fx)

PropsLabels(pr) == {pr[k].label : k \in 1..Len(pr)}

PropsOf(pr, n) == pr[CHOOSE k \in 1..Len(pr) : pr[k].label = n]

MergeInto(im, ns, l) == [q \in BlPix |-> IF im[q] \in ns THEN l ELSE im[q]]

RECURSIVE MergeLoop(_, _, _, _, _, _, _)
\* Lines 1985-2004: the neighbours i.. merged into l, one after the other.
\* A neighbour without a row in props gives empty arrays at line 1986: the
\* comparisons of line 2000 then count as False (lenient) or raise.
MergeLoop(im, pr, neigbors, i, b, l, lenient) ==
    IF i > Len(neigbors) THEN [img |-> im, error |-> "none"]
    ELSE LET n == neigbors[i]
         IN  IF n \notin PropsLabels(pr)
             THEN IF lenient
                  THEN MergeLoop(MergeInto(im, {n}, l), pr, neigbors, i + 1, b, l, lenient)
                  ELSE [img |-> im, error |-> "ValueError"]
             ELSE IF ContainedInLargeBlob(PropsOf(pr, n).bbox, b)
                  THEN MergeLoop(MergeInto(im, {n}, l), pr, neigbors, i + 1, b, l, lenient)
                  ELSE MergeLoop(im, pr, neigbors, i + 1, b, l, lenient)

BlNeighbours4(q) == {w \in BlPix : Abs(w[1] - q[1]) + Abs(w[2] - q[2]) = 1}

RECURSIVE Outside(_, _)
\* The pixels of S connected to the set from through pixels of S.
Outside(S, from) ==
    LET more == {w \in S \ from : \E v \in from : w \in BlNeighbours4(v)}
    IN  IF more = {} THEN from ELSE Outside(S, from \cup more)

\* fill_voids.fill on the 2D patch: the pixels that are not foreground and
\* not connected to the border of the patch through such pixels.
Holes(fg, b) ==
    LET bgd == BoxPix(b) \ fg
        border == {q \in bgd : q[1] \in {b.sy, b.fy - 1} \/ q[2] \in {b.sx, b.fx - 1}}
    IN  bgd \ Outside(bgd, border)

\* Lines 2010-2023: the pixels of l in the patch are set to 0 and the
\* filled shape times l is added to the patch.
FillHoles(im, b, l) ==
    LET fg == {q \in BoxPix(b) : im[q] = l}
        holes == IF fg = {} THEN {} ELSE Holes(fg, b)
    IN  [q \in BlPix |-> IF q \in holes THEN im[q] + l ELSE im[q]]

BlIdle ==
    /\ bl_pc = "idle"
    /\ bl_img = <<>>
    /\ size_th = 0
    /\ props = <<>>
    /\ bl_k = 0
    /\ bl_error = "none"

BlInit ==
    /\ bl_pc = "start"
    /\ bl_img \in BlobImages
    /\ size_th \in BlobThresholds
    /\ props = <<>>
    /\ bl_k = 0
    /\ bl_error = "none"

\* Line 1970.
BlProps ==
    /\ bl_pc = "start"
    /\ props' = RegionProps(bl_img)
    /\ bl_pc' = "loop"
    /\ UNCHANGED <<bl_img, size_th, bl_k, bl_error>>
    /\ UNCHANGED blOthers

\* Lines 1971-2023: one iteration of the loop over props['label'].
BlIterate ==
    /\ bl_pc = "loop"
    /\ bl_k < Len(props)
    /\ LET l == props[bl_k + 1].label
           b == props[bl_k + 1].bbox
       IN  IF props[bl_k + 1].area >= size_th
           THEN \E lenient \in BOOLEAN :
                  LET inst_patches == {bl_img[q] : q \in BoxPix(b)}
                      neigbors == IF Cardinality(inst_patches) > 2
                                  THEN FindNeigbors(bl_img, b, l)
                                  ELSE <<>>
                      merged == MergeLoop(bl_img, props, neigbors, 1, b, l, lenient)
                  IN  IF merged.error = "none"
                      THEN /\ bl_img' = FillHoles(merged.img, b, l)
                           /\ bl_k' = bl_k + 1
                           /\ UNCHANGED <<bl_pc, bl_error>>
                      ELSE /\ bl_img' = merged.img
                           /\ bl_error' = merged.error
                           /\ bl_pc' = "raised"
                           /\ UNCHANGED bl_k
           ELSE /\ bl_k' = bl_k + 1
                /\ UNCHANGED <<bl_pc, bl_img, bl_error>>
    /\ UNCHANGED <<size_th, props>>
    /\ UNCHANGED blOthers

\* Line 2024.
BlReturn ==
    /\ bl_pc = "loop"
    /\ bl_k = Len(props)
    /\ bl_pc' = "done"
    /\ UNCHANGED <<bl_img, size_th, props, bl_k, bl_error>>
    /\ UNCHANGED blOthers

BlNext == BlProps \/ BlIterate \/ BlReturn

\* ---- claims about repare_large_blobs ----

\* The pixels relabelled to l by the iteration of l.
RelabelledToL ==
    {q \in BlPix : bl_img'[q] # bl_img[q] /\ bl_img'[q] = props[bl_k + 1].label}

\* C14: pixels are relabelled to a label l only if l has area >= size_th and
\* they belong to an instance that touches l inside l's bounding box and
\* whose bounding box lies inside l's bounding box: no pixel outside the
\* bounding box of l is ever relabelled to l.
C14_MergeOnlyContained ==
    [][(bl_pc = "loop" /\ bl_k < Len(props)) =>
          \A q \in RelabelledToL :
              /\ props[bl_k + 1].area >= size_th
              /\ InBox(q, props[bl_k + 1].bbox)
              /\ \E w \in BoxPix(props[bl_k + 1].bbox) :
                    /\ bl_img[w] = bl_img[q]
                    /\ \E v \in BoxPix(props[bl_k + 1].bbox) :
                          /\ bl_img[v] = props[bl_k + 1].label
                          /\ Abs(v[1] - w[1]) <= 1
                          /\ Abs(v[2] - w[2]) <= 1]_vars

\* C24: when repare_large_blobs has returned, every pixel is 0 or carries a
\* label of the input image (props holds the labels of the input).
C24_NoNewLabelValue ==
    bl_pc = "done" =>
        \A q \in BlPix : bl_img[q] = 0 \/ bl_img[q] \in PropsLabels(props)

\* ========================================================================
\* remove_instance_by_circularity_central_slice (post_processing.py 1738-1921)
\* Circularities and the threshold are in thousandths, perimeters in
\* hundredths of a pixel side.
\* ========================================================================
\* Number of z slices of a 3D argument img.
CiDepth == 4

CiRows == 0..1

CiCols == 0..4

CiPix == {<<r, c>> : r \in CiRows, c \in CiCols}

CiLabels == {1, 2}

\* img.shape[0] after line 1864: a 2D img is expanded to one slice.
CiShape0(is3d) == IF is3d THEN CiDepth ELSE 1

ShapeNames == {"none", "dot", "ell", "square"}

\* The pixels of a shape whose top-left pixel is in column c0.
Shape(name, c0) ==
    CASE name = "dot"    -> {<<0, c0>>}
      [] name = "ell"    -> {<<0, c0>>, <<1, c0>>, <<1, c0 + 1>>}
      [] name = "square" -> {<<0, c0>>, <<0, c0 + 1>>, <<1, c0>>, <<1, c0 + 1>>}
      [] OTHER           -> {}

\* One slice: label 1 drawn from column 0, label 2 from column 3.
SliceOf(s1, s2) ==
    [p \in CiPix |-> IF p \in Shape(s1, 0) THEN 1
                     ELSE IF p \in Shape(s2, 3) THEN 2 ELSE 0]

Label2Layouts == {"absent", "dot", "square"}

\* Label 2 is absent, one pixel on slice 0, or a square on slices 1 and 2.
Shape2(layout, z) ==
    IF layout = "dot" /\ z = 0 THEN "dot"
    ELSE IF layout = "square" /\ z \in {1, 2} THEN "square"
    ELSE "none"

\* The 3D arguments img: label 1 has any shape on every slice.
Images3D ==
    {[z \in 0..(CiDepth - 1) |-> SliceOf(s1[z], Shape2(layout, z))] :
        s1 \in [0..(CiDepth - 1) -> ShapeNames], layout \in Label2Layouts}

\* The 2D arguments img, held as the single slice of line 1864.
Images2D ==
    {[z \in {0} |-> SliceOf(s1, s2)] : s1 \in ShapeNames, s2 \in ShapeNames}

\* The arguments coords_list of a 3D img: [z, y, x] of each detected point.
Coords3D ==
    {<<>>, <<<<0, 0, 0>>>>, <<<<0, 0, 0>>, <<1, 0, 3>>>>, <<<<1, 0, 3>>, <<0, 0, 0>>>>,
     <<<<0, 0, 0>>, <<0, 0, 0>>>>, <<<<0, 0, 2>>>>}

\* The arguments coords_list of a 2D img: [y, x] of each detected point.
Coords2D ==
    {<<>>, <<<<0, 0>>>>, <<<<0, 0>>, <<0, 3>>>>, <<<<0, 3>>, <<0, 0>>>>,
     <<<<0, 0>>, <<0, 0>>>>, <<<<0, 2>>>>}

\* The arguments circularity_th: 0, the default 0.7, and 3.2.
CircularityThs == {0, 700, 3200}

\* The argument resolution.
CiResolution == <<1, 1, 1>>

\* math.pi of line 1892, in thousandths.
PiMilli == 3142

\* The voxels <<z, p>> of img.
CiVoxOf(im) == {<<z, p>> : z \in DOMAIN im, p \in CiPix}

\* Line 1795: np.unique(img, return_counts=True), the values in ascending order.
UniqueValues(im) == SortedSeq({im[v[1]][v[2]] : v \in CiVoxOf(im)})

CountOf(im, l) == Cardinality({v \in CiVoxOf(im) : im[v[1]][v[2]] = l})

\* list.index(x): the first position of x, 0-based; -1 stands for ValueError.
IndexOf(s, x) ==
    IF \E k \in 1..Len(s) : s[k] = x
    THEN (CHOOSE k \in 1..Len(s) : s[k] = x /\ \A h \in 1..(k - 1) : s[h] # x) - 1
    ELSE -1

Max3(a, b, c) ==
    IF a >= b /\ a >= c THEN a ELSE IF b >= c THEN b ELSE c

\* The pixels of label l on slice z.
MaskOf(im, z, l) == {p \in CiPix : im[z][p] = l}

\* regionprops label column of one slice or of the volume: ascending, 0 left out.
SliceLabels(im, z) == SortedSeq({im[z][p] : p \in CiPix} \ {0})

VolumeLabels(im) == SortedSeq({im[v[1]][v[2]] : v \in CiVoxOf(im)} \ {0})

\* regionprops bbox of label l in the volume: half-open in z, y, x.
BBox3D(im, l) ==
    LET vs == {v \in CiVoxOf(im) : im[v[1]][v[2]] = l}
        zs == {v[1] : v \in vs}
        ys == {v[2][1] : v \in vs}
        xs == {v[2][2] : v \in vs}
        Lo(S) == CHOOSE a \in S : \A b \in S : a <= b
        Hi(S) == CHOOSE a \in S : \A b \in S : a >= b
    IN  <<Lo(zs), Lo(ys), Lo(xs), Hi(zs) + 1, Hi(ys) + 1, Hi(xs) + 1>>

CiN4(p) ==
    {<<p[1] - 1, p[2]>>, <<p[1] + 1, p[2]>>, <<p[1], p[2] - 1>>, <<p[1], p[2] + 1>>}

CiDiag(p) ==
    {<<p[1] - 1, p[2] - 1>>, <<p[1] - 1, p[2] + 1>>,
     <<p[1] + 1, p[2] - 1>>, <<p[1] + 1, p[2] + 1>>}

\* skimage perimeter weights: a border pixel whose 3x3 convolution with
\* [[10,2,10],[2,1,2],[10,2,10]] is v counts 1, sqrt(2) or (1+sqrt(2))/2.
PerimeterWeight(v) ==
    IF v \in {5, 7, 15, 17, 25, 27} THEN 100
    ELSE IF v \in {21, 33} THEN 141
    ELSE IF v \in {13, 23} THEN 121
    ELSE 0

RECURSIVE WeightSum(_, _)
WeightSum(todo, border) ==
    IF todo = {} THEN 0
    ELSE LET p == CHOOSE q \in todo : TRUE
             v == 1 + 2 * Cardinality(CiN4(p) \cap border)
                    + 10 * Cardinality(CiDiag(p) \cap border)
         IN  PerimeterWeight(v) + WeightSum(todo \ {p}, border)

\* Line 1870, property 'perimeter': the region minus its 4-connected erosion
\* (border_value=0), weighted by the neighbourhood of every border pixel.
Perimeter(mask) ==
    LET border == {p \in mask : \E q \in CiN4(p) : q \notin mask}
    IN  WeightSum(border, border)

\* A circularity without the test of line 1891.
CircularityUnguarded(area, perimeter) ==
    (4 * PiMilli * area * 10000)
        \div (IF perimeter # 0 THEN perimeter * perimeter ELSE 1)

\* Lines 1891-1894.
Circularity(area, perimeter) ==
    IF perimeter # 0
    THEN (4 * PiMilli * area * 10000) \div (perimeter * perimeter)
    ELSE 0

\* Lines 1852-1854: the slices around the central one.
SlicesAround(central_slice, z_coord_start, z_coord_finish) ==
    (IF central_slice - 1 >= z_coord_start THEN <<central_slice - 1>> ELSE <<>>)
    \o <<central_slice>>
    \o (IF central_slice + 1 <= z_coord_finish THEN <<central_slice + 1>> ELSE <<>>)

\* Lines 1818, 1820, 1843, 1848.
Vol(pixels, is3d) ==
    IF is3d THEN pixels * (CiResolution[1] + CiResolution[2] + CiResolution[3])
    ELSE pixels * (CiResolution[1] + CiResolution[2])

\* Lines 1805, 1807: the label under a coordinate.
LabelAt(im, c, is3d) ==
    IF is3d THEN im[c[1]][<<c[2], c[3]>>] ELSE im[0][<<c[1], c[2]>>]

CiIdle ==
    /\ ci_pc = "idle"
    /\ ci_img = <<>>
    /\ image3d = FALSE
    /\ coords_given = FALSE
    /\ coords_list = <<>>
    /\ circularity_th = 0
    /\ label_list_coords = <<>>
    /\ npixels = <<>>
    /\ areas = <<>>
    /\ diameters = <<>>
    /\ diam_calc = FALSE
    /\ circularities = <<>>
    /\ circularities_count = <<>>
    /\ comment = <<>>
    /\ ci_i = 0
    /\ ci_error = "none"

CiInit ==
    /\ ci_pc = "start"
    /\ image3d \in BOOLEAN
    /\ ci_img \in (IF image3d THEN Images3D ELSE Images2D)
    /\ coords_given \in BOOLEAN
    /\ coords_list \in (IF ~coords_given THEN {<<>>}
                        ELSE IF image3d THEN Coords3D ELSE Coords2D)
    /\ circularity_th \in CircularityThs
    /\ label_list_coords = <<>>
    /\ npixels = <<>>
    /\ areas = <<>>
    /\ diameters = <<>>
    /\ diam_calc = FALSE
    /\ circularities = <<>>
    /\ circularities_count = <<>>
    /\ comment = <<>>
    /\ ci_i = 0
    /\ ci_error = "none"

CiRaise(e) ==
    /\ ci_pc' = "error"
    /\ ci_error' = e
    /\ UNCHANGED <<ci_img, image3d, coords_given, coords_list, circularity_th,
                   label_list_coords, npixels, areas, diameters, diam_calc,
                   circularities, circularities_count, comment, ci_i>>

\* Lines 1789-1821 and 1859-1864: the labels and areas from coords_list.
CiSetupCoords ==
    /\ ci_pc = "start"
    /\ coords_given
    /\ LET label_list_unique == Tail(UniqueValues(ci_img))
           total_labels == Len(coords_list)
           found == [k \in 1..total_labels |-> LabelAt(ci_img, coords_list[k], image3d)]
       IN  IF \E i \in 1..Len(label_list_unique) : IndexOf(found, label_list_unique[i]) = -1
           THEN CiRaise("ValueError")
           ELSE /\ label_list_coords' = found
                /\ npixels' = [i \in 1..Len(label_list_unique) |->
                                  CountOf(ci_img, label_list_unique[i])]
                /\ comment' = [k \in 1..total_labels |-> "none"]
                /\ areas' = [k \in 1..total_labels |->
                               IF found[k] \in CiLabels /\ IndexOf(found, found[k]) = k - 1
                               THEN Vol(CountOf(ci_img, found[k]), image3d) ELSE 0]
                /\ diameters' = [k \in 1..total_labels |-> 0]
                /\ diam_calc' = FALSE
                /\ circularities' = [k \in 1..total_labels |-> 0]
                /\ circularities_count' = [k \in 1..total_labels |-> 0]
                /\ ci_i' = 0
                /\ ci_pc' = "slices"
                /\ UNCHANGED <<ci_img, image3d, coords_given, coords_list,
                               circularity_th, ci_error>>
    /\ UNCHANGED ciOthers

\* Lines 1789-1797 and 1824-1864: the labels, areas, diameters and central
\* slices from the bounding boxes.
CiSetupBoxes ==
    /\ ci_pc = "start"
    /\ ~coords_given
    /\ LET label_list_unique == Tail(UniqueValues(ci_img))
           total_labels == Len(label_list_unique)
           labels == VolumeLabels(ci_img)
           box(k) == BBox3D(ci_img, label_list_unique[k])
       IN  IF \E k \in 1..Len(labels) : IndexOf(label_list_unique, labels[k]) = -1
           THEN CiRaise("ValueError")
           ELSE IF ~image3d /\ Len(labels) > 0
           THEN CiRaise("UnboundLocalError")
           ELSE /\ label_list_coords' = label_list_unique
                /\ npixels' = [k \in 1..total_labels |->
                                  CountOf(ci_img, label_list_unique[k])]
                /\ comment' = [k \in 1..total_labels |-> "none"]
                /\ coords_list' = [k \in 1..total_labels |->
                                     SlicesAround((box(k)[1] + box(k)[4]) \div 2,
                                                  box(k)[1], box(k)[4])]
                /\ areas' = [k \in 1..total_labels |-> Vol(npixels'[k], image3d)]
                /\ diameters' = [k \in 1..total_labels |->
                                   Max3(box(k)[4] - box(k)[1], box(k)[5] - box(k)[2],
                                        box(k)[6] - box(k)[3])]
                /\ diam_calc' = TRUE
                /\ circularities' = [k \in 1..total_labels |-> 0]
                /\ circularities_count' = [k \in 1..total_labels |-> 0]
                /\ ci_i' = 0
                /\ ci_pc' = "slices"
                /\ UNCHANGED <<ci_img, image3d, coords_given, circularity_th, ci_error>>
    /\ UNCHANGED ciOthers

\* Lines 1878-1880 and 1890: does entry j of coords_list name slice i?
MeasuredOn(coord, i) == coord[1] = i

\* Lines 1898-1900: a coordinate of several components is rotated once measured.
Rotated(coord) == IF Len(coord) > 1 THEN Tail(coord) \o <<coord[1]>> ELSE coord

\* Lines 1869-1903: one slice of the measuring loop.
CiSlice ==
    /\ ci_pc = "slices"
    /\ ci_i < CiShape0(image3d)
    /\ LET labels == SliceLabels(ci_img, ci_i)
           seen(j) == /\ \E k \in 1..Len(labels) : labels[k] = label_list_coords[j]
                      /\ IndexOf(label_list_coords, label_list_coords[j]) = j - 1
                      /\ MeasuredOn(coords_list[j], ci_i)
           mask(j) == MaskOf(ci_img, ci_i, label_list_coords[j])
       IN  IF Len(labels) = 0
           THEN /\ ci_i' = ci_i + 1
                /\ UNCHANGED <<ci_pc, ci_img, image3d, coords_given, coords_list,
                               circularity_th, label_list_coords, npixels, areas,
                               diameters, diam_calc, circularities,
                               circularities_count, comment, ci_error>>
           ELSE IF image3d /\ ~diam_calc
           THEN CiRaise("KeyError")
           ELSE IF ~image3d
           THEN CiRaise("UnboundLocalError")
           ELSE /\ circularities' =
                     [j \in DOMAIN circularities |->
                         IF seen(j)
                         THEN circularities[j]
                              + Circularity(Cardinality(mask(j)), Perimeter(mask(j)))
                         ELSE circularities[j]]
                /\ circularities_count' =
                     [j \in DOMAIN circularities_count |->
                         IF seen(j) THEN (circularities_count[j] + 1) % 256
                         ELSE circularities_count[j]]
                /\ coords_list' =
                     [j \in DOMAIN coords_list |->
                         IF seen(j) THEN Rotated(coords_list[j]) ELSE coords_list[j]]
                /\ ci_i' = ci_i + 1
                /\ UNCHANGED <<ci_pc, ci_img, image3d, coords_given, circularity_th,
                               label_list_coords, npixels, areas, diameters,
                               diam_calc, comment, ci_error>>
    /\ UNCHANGED ciOthers

\* Line 1907: the mean of the measurements, 0 if there is none.
MeanCircularity(total, count) == IF count # 0 THEN total \div count ELSE 0

\* A threshold that no circularity passes.
PassesNever(circularity) == FALSE

\* Line 1908.
PassesThreshold(circularity) == circularity > circularity_th

\* Lines 1905-1921: the threshold, the comments and the removal.
CiFilter ==
    /\ ci_pc = "slices"
    /\ ci_i = CiShape0(image3d)
    /\ circularities' = [j \in DOMAIN circularities |->
                            MeanCircularity(circularities[j], circularities_count[j])]
    /\ comment' = [j \in DOMAIN comment |->
                      IF PassesThreshold(circularities'[j]) THEN "Correct" ELSE "Strange"]
    /\ ci_img' = [z \in DOMAIN ci_img |-> [p \in CiPix |->
                     IF \E j \in DOMAIN comment :
                           /\ ~PassesThreshold(circularities'[j])
                           /\ label_list_coords[j] = ci_img[z][p]
                     THEN 0 ELSE ci_img[z][p]]]
    /\ ci_pc' = "done"
    /\ UNCHANGED <<image3d, coords_given, coords_list, circularity_th,
                   label_list_coords, npixels, areas, diameters, diam_calc,
                   circularities_count, ci_i, ci_error>>
    /\ UNCHANGED ciOthers

CiNext == CiSetupCoords \/ CiSetupBoxes \/ CiSlice \/ CiFilter

\* ------------------------------------------------------------------------
\* Claims about remove_instance_by_circularity_central_slice
\* ------------------------------------------------------------------------
\* C15: once the function has returned, an instance is background and
\* annotated 'Strange' exactly when its mean circularity is below
\* circularity_th; an instance whose circularity is at or above the threshold
\* still carries its label and is annotated 'Correct'.
C15_StrangeExactlyBelowThreshold ==
    ci_pc = "done" =>
        \A j \in DOMAIN comment :
            label_list_coords[j] # 0 =>
                IF circularities[j] < circularity_th
                THEN /\ comment[j] = "Strange"
                     /\ CountOf(ci_img, label_list_coords[j]) = 0
                ELSE /\ comment[j] = "Correct"
                     /\ CountOf(ci_img, label_list_coords[j]) > 0

\* C16: a run on a 3D image with a coords_list that names every instance does
\* not fail, and when it has returned every instance was measured on exactly
\* one slice.
C16_OneSlicePerCoordinate ==
    (image3d /\ coords_given /\ ci_error # "ValueError") =>
        /\ ci_error = "none"
        /\ ci_pc = "done" =>
              \A j \in DOMAIN label_list_coords :
                  label_list_coords[j] # 0 => circularities_count[j] = 1

\* C17: a measurement of a region whose perimeter is 0 adds circularity 0 to
\* the instance, and an instance that was never measured is returned with
\* circularity 0.
C17_ZeroPerimeterIsZero ==
    [][/\ (ci_pc = "slices" /\ ci_pc' = "slices") =>
             \A j \in DOMAIN circularities :
                 (/\ circularities_count'[j] # circularities_count[j]
                  /\ Perimeter(MaskOf(ci_img, ci_i, label_list_coords[j])) = 0)
                 => circularities'[j] = circularities[j]
       /\ ci_pc' = "done" =>
             \A j \in DOMAIN circularities' :
                 circularities_count'[j] = 0 => circularities'[j] = 0]_vars

\* A returned run in which one instance was measured on zero-perimeter regions
\* only and another instance was never measured.
C17_Witness ==
    /\ ci_pc = "done"
    /\ \E j, k \in DOMAIN circularities :
          /\ label_list_coords[j] # 0
          /\ circularities_count[j] > 0
          /\ circularities[j] = 0
          /\ label_list_coords[k] # 0
          /\ circularities_count[k] = 0

\* C22: a run on a 2D image, with or without coords_list (one that names every
\* instance), does not fail, and when it has returned every instance that a
\* coordinate names was measured once, at its own index.
C22_TwoDimensionalImageAccepted ==
    (~image3d /\ ci_error # "ValueError") =>
        /\ ci_error = "none"
        /\ ci_pc = "done" =>
              \A j \in DOMAIN label_list_coords :
                  (/\ label_list_coords[j] # 0
                   /\ IndexOf(label_list_coords, label_list_coords[j]) = j - 1)
                  => circularities_count[j] = 1

\* C25: when the function has returned, labels, npixels, areas, circularities,
\* diameters and comment have the same length, and entry i of npixels and of
\* areas describe the same instance (the area is the volume of npixels[i]
\* pixels).
C25_ReturnedListsAligned ==
    ci_pc = "done" =>
        /\ Len(npixels) = Len(label_list_coords)
        /\ Len(areas) = Len(label_list_coords)
        /\ Len(circularities) = Len(label_list_coords)
        /\ Len(diameters) = Len(label_list_coords)
        /\ Len(comment) = Len(label_list_coords)
        /\ \A i \in DOMAIN label_list_coords : areas[i] = Vol(npixels[i], image3d)

VtLen == 7

VtVox == {<<0, 0, x>> : x \in 0..(VtLen - 1)}

VtLabels == {0, 1, 2}

\* The arguments data, as data[0].
VtDatas == [VtVox -> VtLabels]

\* The arguments mask after lines 1275-1281: nothing, everything, one end,
\* two voxels at one end, both ends, the other end.
VtMaskSets ==
    {{}, VtVox, {<<0, 0, 0>>}, {<<0, 0, 0>>, <<0, 0, 1>>},
     {<<0, 0, 0>>, <<0, 0, VtLen - 1>>}, {<<0, 0, VtLen - 1>>}}

VtMasks == {[v \in VtVox |-> IF v \in S THEN 1 ELSE 0] : S \in VtMaskSets}

\* The arguments th: 0 asks for Otsu's threshold.
VtThs == {0, 1}

\* Line 1292: radius of morphology.ball in the closing.
ClosingRadius == 5

\* Line 1299: radius of morphology.ball in the erosion.
PerimeterRadius == 2

\* Squared Euclidean distance of two voxels.
Dist2(v, w) ==
    (v[1] - w[1]) * (v[1] - w[1]) + (v[2] - w[2]) * (v[2] - w[2])
        + (v[3] - w[3]) * (v[3] - w[3])

\* The voxels of the array under morphology.ball(radius) centred on v.
VtBall ==
    [rad \in {PerimeterRadius, ClosingRadius} |->
        [v \in VtVox |-> {w \in VtVox : Dist2(v, w) <= rad * rad}]]

\* skimage dilation and erosion by a ball: voxels outside the array do not count.
VtDilation(S, rad) == {v \in VtVox : VtBall[rad][v] \cap S # {}}

VtErosion(S, rad) == {v \in VtVox : VtBall[rad][v] \subseteq S}

\* Line 1292: morphology.closing, a dilation followed by an erosion.
Closing(S, rad) == VtErosion(VtDilation(S, rad), rad)

\* np.argwhere: the voxels of S in C order (z, then y, then x).
VoxBefore(v, w) ==
    \/ v[1] < w[1]
    \/ v[1] = w[1] /\ v[2] < w[2]
    \/ v[1] = w[1] /\ v[2] = w[2] /\ v[3] <= w[3]

RECURSIVE ArgWhere(_)
ArgWhere(S) ==
    IF S = {} THEN <<>>
    ELSE LET v == CHOOSE u \in S : \A w \in S : VoxBefore(u, w)
         IN  <<v>> \o ArgWhere(S \ {v})

\* Lines 1285-1289 with th == 0: threshold_otsu of a two-valued mask separates
\* the two values.
OtsuAbove(m) == {v \in VtVox : \E w \in VtVox : m[v] > m[w]}

IsFlat(m) == \A v, w \in VtVox : m[v] = m[w]

\* Lines 1311-1313: the first column of distCoord that holds its minimum.
IdSeedMin(v, perim) ==
    CHOOSE k \in 1..Len(perim) :
        /\ \A h \in 1..Len(perim) : Dist2(v, perim[k]) <= Dist2(v, perim[h])
        /\ \A h \in 1..(k - 1) : Dist2(v, perim[h]) > Dist2(v, perim[k])

\* Line 1310, range(1, len(idsToFill)): the first index visited.
FirstFilled == 1

VtIdle ==
    /\ v2_pc = "idle"
    /\ v2_data = <<>>
    /\ v2_mask = <<>>
    /\ v2_th = 0
    /\ closedBinaryMask = <<>>
    /\ voronoiCyst = <<>>
    /\ idsToFill = <<>>
    /\ idsPerim = <<>>
    /\ labelsPerimIds = <<>>
    /\ nId = 0
    /\ v2_error = "none"

VtInit ==
    /\ v2_pc = "start"
    /\ v2_data \in VtDatas
    /\ v2_mask \in VtMasks
    /\ v2_th \in VtThs
    /\ closedBinaryMask = <<>>
    /\ voronoiCyst = <<>>
    /\ idsToFill = <<>>
    /\ idsPerim = <<>>
    /\ labelsPerimIds = <<>>
    /\ nId = 0
    /\ v2_error = "none"

VtRaise(e) ==
    /\ v2_pc' = "error"
    /\ v2_error' = e
    /\ UNCHANGED <<v2_data, v2_mask, v2_th, closedBinaryMask, voronoiCyst, idsToFill,
                   idsPerim, labelsPerimIds, nId>>

\* Lines 1284-1307 for a binarised mask.
VtPrepareFrom(binaryMask) ==
    LET closed == Closing(binaryMask, ClosingRadius)
        cyst == [v \in VtVox |-> IF v \in closed THEN v2_data[v] ELSE 0]
        binaryVoronoiCyst == {v \in VtVox : cyst[v] > 0}
        erodedVoronoiCyst == VtErosion(binaryVoronoiCyst, PerimeterRadius)
        cellPerimeter == binaryVoronoiCyst \ erodedVoronoiCyst
    IN  /\ closedBinaryMask' = [v \in VtVox |-> IF v \in closed THEN 1 ELSE 0]
        /\ voronoiCyst' = cyst
        /\ idsToFill' = ArgWhere({v \in closed : v2_data[v] = 0})
        /\ idsPerim' = ArgWhere(cellPerimeter)
        /\ labelsPerimIds' = [k \in 1..Len(idsPerim') |-> cyst[idsPerim'[k]]]
        /\ nId' = FirstFilled
        /\ v2_pc' = "fill"
        /\ UNCHANGED <<v2_data, v2_mask, v2_th, v2_error>>

\* Lines 1259-1307. threshold_otsu of a one-valued mask either raises or
\* returns that value, depending on the skimage release.
VtPrepare ==
    /\ v2_pc = "start"
    /\ IF v2_th = 0
       THEN IF IsFlat(v2_mask)
            THEN VtRaise("ValueError") \/ VtPrepareFrom({})
            ELSE VtPrepareFrom(OtsuAbove(v2_mask))
       ELSE VtPrepareFrom({v \in VtVox : v2_mask[v] > v2_th})
    /\ UNCHANGED v2Others

\* Lines 1310-1315: one iteration; np.min of an empty distCoord raises.
VtFill ==
    /\ v2_pc = "fill"
    /\ nId < Len(idsToFill)
    /\ IF Len(idsPerim) = 0
       THEN VtRaise("ValueError")
       ELSE LET v == idsToFill[nId + 1]
                idSeedMin == IdSeedMin(v, idsPerim)
            IN  /\ voronoiCyst' = [voronoiCyst EXCEPT ![v] = labelsPerimIds[idSeedMin]]
                /\ nId' = nId + 1
                /\ UNCHANGED <<v2_pc, v2_data, v2_mask, v2_th, closedBinaryMask,
                               idsToFill, idsPerim, labelsPerimIds, v2_error>>
    /\ UNCHANGED v2Others

\* Lines 1317-1322: the loop is over, the array is saved and returned.
VtReturn ==
    /\ v2_pc = "fill"
    /\ nId >= Len(idsToFill)
    /\ v2_pc' = "done"
    /\ UNCHANGED <<v2_data, v2_mask, v2_th, closedBinaryMask, voronoiCyst, idsToFill,
                   idsPerim, labelsPerimIds, nId, v2_error>>
    /\ UNCHANGED v2Others

VtNext == VtPrepare \/ VtFill \/ VtReturn

\* ------------------------------------------------------------------------
\* Claims about voronoi_on_mask_2
\* ------------------------------------------------------------------------
\* C18: when voronoi_on_mask_2 has returned and a perimeter voxel exists, every
\* voxel inside the closed binary mask whose input label is 0 carries the
\* label of a perimeter voxel at minimum Euclidean distance from it; none is
\* left unlabelled.
C18_EveryMaskedVoxelFilled ==
    (v2_pc = "done" /\ Len(idsPerim) > 0) =>
        \A v \in VtVox :
            (closedBinaryMask[v] = 1 /\ v2_data[v] = 0) =>
                /\ voronoiCyst[v] # 0
                /\ \E k \in 1..Len(idsPerim) :
                      /\ voronoiCyst[v] = labelsPerimIds[k]
                      /\ \A h \in 1..Len(idsPerim) :
                            Dist2(v, idsPerim[k]) <= Dist2(v, idsPerim[h])

\* ========================================================================
\* voronoi_on_mask (post_processing.py 1137-1222), one image of the batch.
\* Boolean arrays are the sets of their True voxels.
\* ========================================================================
\* Extent of data[i] and mask[i] along z, y and x.
VmSide == 5

VmAxis == 0..(VmSide - 1)

VmVox == {<<z, y, x>> : z \in VmAxis, y \in VmAxis, x \in VmAxis}

\* Label values of the instances: 1 and 2 leave no gap, 3 leaves one.
VmLabelValues == {0, 1, 3}

\* The voxels that may carry an instance: the centre, two of its neighbours
\* and two corners; every other voxel is background.
VmPieces == <<(<<2, 2, 2>>), (<<2, 2, 1>>), (<<2, 2, 3>>), (<<0, 0, 0>>), (<<4, 4, 4>>)>>

\* The arguments data[i].
VmDatas ==
    {[v \in VmVox |-> IF \E k \in 1..Len(VmPieces) : VmPieces[k] = v
                      THEN val[CHOOSE k \in 1..Len(VmPieces) : VmPieces[k] = v]
                      ELSE 0] :
        val \in [1..Len(VmPieces) -> VmLabelValues]}

\* The arguments mask[i,...,0]: nothing, the centre, the centre and one
\* neighbour, one corner, everything.
VmMaskSets ==
    {{}, {<<2, 2, 2>>}, {<<2, 2, 2>>, <<2, 2, 1>>}, {<<0, 0, 0>>}, VmVox}

VmMasks == {[v \in VmVox |-> IF v \in S THEN 1 ELSE 0] : S \in VmMaskSets}

\* The arguments th.
VmThs == {0, 1}

\* The arguments thres_small.
VmThresSmall == {2, 126}

\* Neighbours of a voxel inside the array: the 6 of scipy's default structure
\* and the 26 of skimage's default connectivity.
VmN6 ==
    [v \in VmVox |-> {w \in VmVox : Abs(v[1] - w[1]) + Abs(v[2] - w[2])
                                       + Abs(v[3] - w[3]) = 1}]

VmN26 ==
    [v \in VmVox |-> {w \in VmVox : /\ w # v
                                    /\ Abs(v[1] - w[1]) <= 1
                                    /\ Abs(v[2] - w[2]) <= 1
                                    /\ Abs(v[3] - w[3]) <= 1}]

\* A voxel all of whose 6 neighbours are inside the array.
VmInner ==
    {v \in VmVox : \A k \in 1..3 : v[k] > 0 /\ v[k] < VmSide - 1}

\* Lines 1202-1203: scipy binary_dilation and binary_erosion, border_value=0.
RECURSIVE ScipyDilation(_, _)
ScipyDilation(S, iterations) ==
    IF iterations = 0 THEN S
    ELSE ScipyDilation(S \cup {v \in VmVox : VmN6[v] \cap S # {}}, iterations - 1)

RECURSIVE ScipyErosion(_, _)
ScipyErosion(S, iterations) ==
    IF iterations = 0 THEN S
    ELSE ScipyErosion({v \in S \cap VmInner : VmN6[v] \subseteq S}, iterations - 1)

RECURSIVE VmFlood(_, _)
VmFlood(seen, S) ==
    LET next == seen \cup (UNION {VmN26[v] : v \in seen} \cap S)
    IN  IF next = seen THEN seen ELSE VmFlood(next, S)

\* Line 1199: label(voronoi_mask), the connected components.
RECURSIVE VmComponents(_)
VmComponents(S) ==
    IF S = {} THEN {}
    ELSE LET comp == VmFlood({CHOOSE v \in S : TRUE}, S)
         IN  {comp} \cup VmComponents(S \ comp)

\* Line 1200: remove_small_objects(voronoi_mask, thres_small) > 0.
VmRemoveSmall(S, min_size) ==
    UNION {comp \in VmComponents(S) : Cardinality(comp) >= min_size}

\* Lines 1198-1203: the cleaned foreground mask.
CleanedMask(m, t, min_size) ==
    ScipyErosion(ScipyDilation(VmRemoveSmall({v \in VmVox : m[v] > t}, min_size), 2), 2)

\* The sum over the voxels of S of coordinate k, for the coordinates up to c.
RECURSIVE VmSumUpTo(_, _, _)
VmSumUpTo(S, k, c) ==
    IF c < 0 THEN 0
    ELSE c * Cardinality({v \in S : v[k] = c}) + VmSumUpTo(S, k, c - 1)

VmSum(S, k) == VmSumUpTo(S, k, VmSide - 1)

\* Line 1190: npi.group_by(_data[i]).mean(idx): per distinct value, ascending,
\* the mean coordinate, kept as the coordinate sums s and the group size n.
GroupLabels(d) == SortedSeq({d[v] : v \in VmVox})

GroupMeans(d) ==
    LET ls == GroupLabels(d)
        members(r) == {v \in VmVox : d[v] = ls[r]}
    IN  [r \in 1..Len(ls) |->
            [s |-> <<VmSum(members(r), 1), VmSum(members(r), 2), VmSum(members(r), 3)>>,
             n |-> Cardinality(members(r))]]

\* n * n times the squared distance from voxel v to the mean of group g.
ScaledDist2(v, g) ==
    (g.n * v[1] - g.s[1]) * (g.n * v[1] - g.s[1])
    + (g.n * v[2] - g.s[2]) * (g.n * v[2] - g.s[2])
    + (g.n * v[3] - g.s[3]) * (g.n * v[3] - g.s[3])

\* Is the mean of group g at most as far from v as the mean of group h?
NotFarther(v, g, h) ==
    IF g.n = h.n THEN ScaledDist2(v, g) <= ScaledDist2(v, h)
    ELSE ScaledDist2(v, g) * h.n * h.n <= ScaledDist2(v, h) * g.n * g.n

\* Line 1212, tree.query(...)[1]: the index of a nearest point; which one of
\* several equidistant points is returned is left to the tree.
Nearest(v, pts) ==
    {r \in 0..(Len(pts) - 1) : \A h \in 1..Len(pts) : NotFarther(v, pts[r + 1], pts[h])}

\* The label value of the group at index r, written in place of the index.
LabelOfGroup(r, ls) == ls[r + 1]

\* Line 1212: the value written is the index returned by the query.
Assigned(r, ls) == r

VmIdle ==
    /\ vm_pc = "idle"
    /\ vm_data = <<>>
    /\ vm_mask = <<>>
    /\ vm_th = 0
    /\ thres_small = 0
    /\ data_copy = <<>>
    /\ vm_labels = <<>>
    /\ vm_points = <<>>
    /\ voronoi_mask = {}
    /\ pos_not_labelled_points = <<>>
    /\ vm_j = 0

VmInit ==
    /\ vm_pc = "start"
    /\ vm_data \in VmDatas
    /\ vm_mask \in VmMasks
    /\ vm_th \in VmThs
    /\ thres_small \in VmThresSmall
    /\ data_copy = <<>>
    /\ vm_labels = <<>>
    /\ vm_points = <<>>
    /\ voronoi_mask = {}
    /\ pos_not_labelled_points = <<>>
    /\ vm_j = 0

\* Lines 1185-1207: the copy, the centroids, the cleaned mask and the voxels
\* whose state differs from it.
VmPrepare ==
    /\ vm_pc = "start"
    /\ data_copy' = vm_data
    /\ vm_labels' = GroupLabels(vm_data)
    /\ vm_points' = GroupMeans(vm_data)
    /\ voronoi_mask' = CleanedMask(vm_mask, vm_th, thres_small)
    /\ pos_not_labelled_points' =
          ArgWhere({v \in VmVox : (vm_data[v] > 0) # (v \in voronoi_mask')})
    /\ vm_j' = 0
    /\ vm_pc' = "loop"
    /\ UNCHANGED <<vm_data, vm_mask, vm_th, thres_small>>
    /\ UNCHANGED vmOthers

\* Lines 1208-1212: one voxel receives the index of a nearest centroid.
VmAssign ==
    /\ vm_pc = "loop"
    /\ vm_j < Len(pos_not_labelled_points)
    /\ \E r \in Nearest(pos_not_labelled_points[vm_j + 1], vm_points) :
          data_copy' = [data_copy EXCEPT ![pos_not_labelled_points[vm_j + 1]] =
                           Assigned(r, vm_labels)]
    /\ vm_j' = vm_j + 1
    /\ UNCHANGED <<vm_pc, vm_data, vm_mask, vm_th, thres_small, vm_labels, vm_points,
                   voronoi_mask, pos_not_labelled_points>>
    /\ UNCHANGED vmOthers

\* Lines 1214-1222: the image is saved and returned.
VmReturn ==
    /\ vm_pc = "loop"
    /\ vm_j = Len(pos_not_labelled_points)
    /\ vm_pc' = "done"
    /\ UNCHANGED <<vm_data, vm_mask, vm_th, thres_small, data_copy, vm_labels, vm_points,
                   voronoi_mask, pos_not_labelled_points, vm_j>>
    /\ UNCHANGED vmOthers

VmNext == VmPrepare \/ VmAssign \/ VmReturn

\* ------------------------------------------------------------------------
\* Claims about voronoi_on_mask
\* ------------------------------------------------------------------------
\* The distinct values of the input are exactly 0..n.
NoGaps == \A r \in 1..Len(vm_labels) : vm_labels[r] = r - 1

\* C19: when voronoi_on_mask has returned, every voxel whose labelled state
\* differs from the cleaned mask holds the position, among the sorted distinct
\* input values, of a group whose centroid is nearest to it, and that position
\* is the label value of the group whenever the distinct values are 0..n
\* without gaps; every other voxel holds its input value.
C19_RankOfNearestCentroid ==
    vm_pc = "done" =>
        LET cleaned == CleanedMask(vm_mask, vm_th, thres_small)
        IN  \A v \in VmVox :
            IF (vm_data[v] > 0) # (v \in cleaned)
            THEN /\ data_copy[v] \in 0..(Len(vm_labels) - 1)
                 /\ \A h \in 1..Len(vm_points) :
                       NotFarther(v, vm_points[data_copy[v] + 1], vm_points[h])
                 /\ NoGaps => data_copy[v] = vm_labels[data_copy[v] + 1]
            ELSE data_copy[v] = vm_data[v]

\* A returned run whose label values have a gap: a voxel that differed from the
\* mask holds a position that is not the label value of its nearest group, and
\* a labelled voxel inside the cleaned mask kept its value.
C19_Witness ==
    /\ vm_pc = "done"
    /\ ~NoGaps
    /\ \E v \in VmVox :
          /\ (vm_data[v] > 0) # (v \in voronoi_mask)
          /\ data_copy[v] # vm_labels[data_copy[v] + 1]
    /\ \E w \in voronoi_mask : vm_data[w] > 0 /\ data_copy[w] = vm_data[w]

\* ========================================================================
\* detection_watershed, donut repair (post_processing.py 1496-1684), ndim 3.
\* The image is not modelled: the two smoothed lines through every detected
\* point (line_y and line_x after lines 1571-1572) are inputs, as sequences of
\* non-negative integers. The patch is scaled down to 2 x 6 x 6 voxels.
\* ========================================================================
\* Largest value of the smoothed lines that are enumerated exhaustively.
MaxProfile == 2

\* seeds.shape.
DwShape == <<2, 6, 8>>

DwVox == {<<z, y, x>> : z \in 0..(DwShape[1] - 1), y \in 0..(DwShape[2] - 1),
                        x \in 0..(DwShape[3] - 1)}

\* Argument donuts_patch and line 1502.
DonutsPatch == <<2, 6, 6>>

half_spatch == [k \in 1..3 |-> DonutsPatch[k] \div 2]

\* Length of line_y and of line_x for a patch that the image does not clip.
LineLen == 2 * half_spatch[2]

AllLines == [1..LineLen -> 0..MaxProfile]

\* Two peaks around a lower centre, 3 and 2 samples apart, with tails that
\* fall to 0 or stay at 0.75 of the peak; a line without peaks; a line without
\* minima.
DonutWide == <<0, 2, 1, 1, 2, 0>>

DonutNarrow == <<0, 1, 2, 1, 2, 0>>

LowGradient == <<3, 4, 1, 1, 4, 3>>

Valley == <<2, 1, 0, 1, 2, 2>>

Bump == <<0, 1, 2, 1, 0, 0>>

SomeLines == {DonutWide, DonutNarrow, LowGradient}

DonutLines == {[y |-> ly, x |-> lx] : ly \in SomeLines, lx \in SomeLines}

\* The lines of a single detected point: line_y is free.
FirstLines ==
    {[y |-> ly, x |-> lx] : ly \in AllLines, lx \in SomeLines \cup {Bump}}
    \cup DonutLines

\* The lines of a second detected point.
SecondLines ==
    {[y |-> DonutWide, x |-> DonutWide], [y |-> Valley, x |-> Valley],
     [y |-> Bump, x |-> Bump]}

\* The detected points: one at the centre of the first patch, a second one
\* two voxels further, so that label() of line 1487 keeps them apart.
PointA == <<1, 3, 3>>

PointB == <<1, 3, 5>>

\* Lines 1487-1494: the labelled seeds and the background seed max_seed+1 in
\* seeds[0,:4,:4]. other is a seed of another class next to the first point.
SeedsOf(second, other) ==
    LET max_seed == IF second \/ other THEN 2 ELSE 1
    IN  [v \in DwVox |->
            IF v[1] = 0 /\ v[2] < 4 /\ v[3] < 4 THEN max_seed + 1
            ELSE IF v = PointA THEN 1
            ELSE IF second /\ v = PointB THEN 2
            ELSE IF other /\ v = <<1, 4, 3>> THEN 2
            ELSE 0]

FirstDilations == {<<1, 1, 1>>, <<1, 2, 2>>, <<0, 1, 1>>, <<2, 1, 1>>}

NucleusDiameters == {2, 3}

\* scipy find_peaks(line): the 1-based positions of the strict local maxima,
\* ascending; of a flat top, the middle sample (rounded down).
IsPeakTop(line, a, b) ==
    /\ 1 < a /\ b < Len(line) /\ a <= b
    /\ \A k \in a..b : line[k] = line[a]
    /\ line[a - 1] < line[a]
    /\ line[b + 1] < line[a]

FindPeaks(line) ==
    SortedSeq({(t[1] + t[2]) \div 2 :
                  t \in {<<a, b>> \in (1..Len(line)) \X (1..Len(line)) :
                            IsPeakTop(line, a, b)}})

Negated(line) == [k \in 1..Len(line) |-> -line[k]]

\* Lines 1595 and 1621, min(mins, key=lambda x: abs(x-mid)): the first of the
\* minima closest to mid. Positions are 1-based, mid is 0-based.
ClosestToMid(mins, mid) ==
    mins[CHOOSE k \in 1..Len(mins) :
            /\ \A h \in 1..Len(mins) :
                  Abs(mins[k] - 1 - mid) <= Abs(mins[h] - 1 - mid)
            /\ \A h \in 1..(k - 1) :
                  Abs(mins[h] - 1 - mid) > Abs(mins[k] - 1 - mid)]

\* Lines 1599-1612 and 1625-1638: the peaks that reach 1.5 times mid_value, on
\* one side of mid.
HighPeaks(line, mid_value, left) ==
    LET mid == Len(line) \div 2
        peaks == FindPeaks(line)
    IN  {peaks[k] : k \in {h \in 1..Len(peaks) :
                             /\ 2 * line[peaks[h]] >= 3 * mid_value
                             /\ (peaks[h] - 1 <= mid) = left}}

\* The first of the highest peaks of a side, as 0-based position; -1 if none
\* exceeds 0.
MaxPos(line, side) ==
    IF \E p \in side : line[p] > 0
    THEN (CHOOSE p \in side : /\ line[p] > 0
                              /\ \A q \in side : line[q] <= line[p]
                              /\ \A q \in side : line[q] = line[p] => p <= q) - 1
    ELSE -1

\* Minimum of line[a:b] (0-based, half-open).
MinOfSlice(line, a, b) ==
    CHOOSE m \in {line[k] : k \in (a + 1)..b} : \A k \in (a + 1)..b : m <= line[k]

\* Lines 1594-1617 and 1620-1643 for one line that has a minimum.
Analysis(line) ==
    LET mid == Len(line) \div 2
        mins == FindPeaks(Negated(line))
        mid_value == line[ClosestToMid(mins, mid)]
        lefts == HighPeaks(line, mid_value, TRUE)
        rights == HighPeaks(line, mid_value, FALSE)
        max_left_pos == MaxPos(line, lefts)
        max_right_pos == MaxPos(line, rights)
        ushape == lefts # {} /\ rights # {}
    IN  [ushape |-> ushape,
         diff_dilation |-> max_right_pos - max_left_pos,
         left_gradient |-> ushape /\ 10 * MinOfSlice(line, 0, max_left_pos)
                                        < 7 * line[max_left_pos + 1],
         right_gradient |-> ushape /\ 10 * MinOfSlice(line, max_right_pos, Len(line))
                                         < 7 * line[max_right_pos + 1]]

HasMinimum(line) == Len(FindPeaks(Negated(line))) > 0

\* int(x*0.4) of lines 1653-1654: truncation towards zero.
Int04(x) == IF x >= 0 THEN (4 * x) \div 10 ELSE -((4 * (-x)) \div 10)

\* Lines 1652-1654.
DonutsCellDilation(y_diff_dilation, x_diff_dilation) ==
    LET dy == y_diff_dilation - first_dilation[2]
        dx == x_diff_dilation - first_dilation[3]
    IN  <<first_dilation[1], dy - Int04(dy), dx - Int04(dx)>>

\* Lines 1657-1673: a donut that is not very large keeps dilate = True; a
\* large one needs the four gradients.
DilateFlag(ay, ax) ==
    IF ax.diff_dilation + ay.diff_dilation < donuts_nucleus_diameter * 2
    THEN TRUE
    ELSE /\ ay.left_gradient /\ ay.right_gradient
         /\ ax.left_gradient /\ ax.right_gradient

\* Lines 1522-1524: the patch around c, clipped to the image.
PatchLo(c) == [k \in 1..3 |-> IF c[k] - half_spatch[k] > 0 THEN c[k] - half_spatch[k] ELSE 0]

PatchHi(c) ==
    [k \in 1..3 |-> IF c[k] + half_spatch[k] < DwShape[k]
                    THEN c[k] + half_spatch[k] ELSE DwShape[k]]

InPatch(v, c) == \A k \in 1..3 : PatchLo(c)[k] <= v[k] /\ v[k] < PatchHi(c)[k]

\* scipy mode 'reflect' (d c b a | a b c d | d c b a) on an axis lo..hi-1.
DwReflect(q, lo, hi) ==
    LET len == hi - lo
        m == (q - lo) % (2 * len)
    IN  IF m < len THEN lo + m ELSE lo + 2 * len - 1 - m

\* Line 1676: grey_dilation(seed_patch, footprint=np.ones(size)): the maximum
\* over the window q - (s-1)//2 .. q + s//2 of every axis.
GreyDilationAt(patch, v, c, size) ==
    LET win(k) == (v[k] - ((size[k] - 1) \div 2))..(v[k] + (size[k] \div 2))
        src == {<<DwReflect(z, PatchLo(c)[1], PatchHi(c)[1]),
                  DwReflect(y, PatchLo(c)[2], PatchHi(c)[2]),
                  DwReflect(x, PatchLo(c)[3], PatchHi(c)[3])>> :
                    z \in win(1), y \in win(2), x \in win(3)}
    IN  CHOOSE m \in {patch[w] : w \in src} : \A w \in src : patch[w] <= m

\* A dilation that is added to every voxel of the patch, labelled or not.
DilatedSeedsUnmasked(sd, c, size) ==
    LET l == sd[c]
        seed_patch == [v \in DwVox |-> IF sd[v] = l THEN l ELSE 0]
    IN  [v \in DwVox |->
            IF InPatch(v, c)
            THEN sd[v] + GreyDilationAt(seed_patch, v, c, size)
            ELSE sd[v]]

\* Lines 1532-1534 and 1676-1680: the seeds after the dilation of label l
\* inside the patch around c.
DilatedSeeds(sd, c, size) ==
    LET l == sd[c]
        seed_patch == [v \in DwVox |-> IF sd[v] = l THEN l ELSE 0]
    IN  [v \in DwVox |->
            IF InPatch(v, c)
            THEN sd[v] + GreyDilationAt(seed_patch, v, c, size)
                             * (IF sd[v] = 0 THEN 1 ELSE 0)
            ELSE sd[v]]

DwIdle ==
    /\ dw_pc = "idle"
    /\ dw_seeds = <<>>
    /\ class_coords = <<>>
    /\ dw_lines = <<>>
    /\ first_dilation = <<>>
    /\ donuts_nucleus_diameter = 0
    /\ dw_i = 0
    /\ dw_branch = "none"
    /\ dw_error = "none"

DwInit ==
    /\ dw_pc = "donuts"
    /\ \E second, other \in BOOLEAN :
          /\ ~(second /\ other)
          /\ dw_seeds = SeedsOf(second, other)
          /\ class_coords = IF second THEN <<PointA, PointB>> ELSE <<PointA>>
          /\ IF second
             THEN \E la \in DonutLines, lb \in SecondLines : dw_lines = <<la, lb>>
             ELSE \E la \in FirstLines : dw_lines = <<la>>
    /\ first_dilation \in FirstDilations
    /\ donuts_nucleus_diameter \in NucleusDiameters
    /\ dw_i = 0
    /\ dw_branch = "none"
    /\ dw_error = "none"

\* Lines 1507-1684: one detected point of the class.
DwDonut ==
    /\ dw_pc = "donuts"
    /\ dw_i < Len(class_coords)
    /\ LET c == class_coords[dw_i + 1]
           line_y == dw_lines[dw_i + 1].y
           line_x == dw_lines[dw_i + 1].x
       IN  IF ~HasMinimum(line_y) \/ ~HasMinimum(line_x)
           THEN /\ dw_pc' = "error"
                /\ dw_error' = "ValueError"
                /\ UNCHANGED <<dw_seeds, dw_i, dw_branch>>
           ELSE LET ay == Analysis(line_y)
                    ax == Analysis(line_x)
                    size == DonutsCellDilation(ay.diff_dilation, ax.diff_dilation)
                IN  /\ dw_i' = dw_i + 1
                    /\ UNCHANGED <<dw_pc, dw_error>>
                    /\ IF ~(ay.ushape /\ ax.ushape)
                       THEN dw_branch' = "checked" /\ UNCHANGED dw_seeds
                       ELSE IF ~DilateFlag(ay, ax)
                       THEN dw_branch' = "not dilating" /\ UNCHANGED dw_seeds
                       ELSE IF \A k \in 1..3 : size[k] > 0
                       THEN /\ dw_branch' = "dilated"
                            /\ dw_seeds' = DilatedSeeds(dw_seeds, c, size)
                       ELSE dw_branch' = "no dilation size" /\ UNCHANGED dw_seeds
    /\ UNCHANGED <<class_coords, dw_lines, first_dilation, donuts_nucleus_diameter>>
    /\ UNCHANGED dwOthers

\* Line 1686: the loop over the detected points is over.
DwDone ==
    /\ dw_pc = "donuts"
    /\ dw_i = Len(class_coords)
    /\ dw_pc' = "gradient"
    /\ UNCHANGED <<dw_seeds, class_coords, dw_lines, first_dilation,
                   donuts_nucleus_diameter, dw_i, dw_branch, dw_error>>
    /\ UNCHANGED dwOthers

DwNext == DwDonut \/ DwDone

\* ------------------------------------------------------------------------
\* Claims about the donut repair of detection_watershed
\* ------------------------------------------------------------------------
\* The last instance handled has a donut profile: high peaks on both sides of
\* the centre on both lines and a tail that falls below 0.7 of the peak outside
\* each of the four peaks.
LastIsDonut ==
    LET ay == Analysis(dw_lines[dw_i].y)
        ax == Analysis(dw_lines[dw_i].x)
    IN  /\ ay.ushape /\ ax.ushape
        /\ ay.left_gradient /\ ay.right_gradient
        /\ ax.left_gradient /\ ax.right_gradient

LastIsLarge ==
    Analysis(dw_lines[dw_i].x).diff_dilation + Analysis(dw_lines[dw_i].y).diff_dilation
        >= 2 * donuts_nucleus_diameter

\* C20: the seed of an instance is dilated if and only if the instance has a
\* donut profile and x_diff + y_diff >= 2 * donuts_nucleus_diameter; a donut
\* whose ring diameter is below that threshold is never dilated.
C20_DilatedIffLargeDonut ==
    (dw_pc = "donuts" /\ dw_i > 0) =>
        ((dw_branch = "dilated") <=> (LastIsDonut /\ LastIsLarge))

\* C21: handling one instance changes no voxel that carried a non-zero seed
\* label before (of the instance, of another instance, of the background seed
\* or of an earlier dilation) and no voxel outside the patch of the instance.
C21_OnlyZeroVoxelsWritten ==
    [][dw_i' = dw_i + 1 =>
          \A v \in DwVox :
              (dw_seeds[v] # 0 \/ ~InPatch(v, class_coords[dw_i + 1]))
                  => dw_seeds'[v] = dw_seeds[v]]_vars

\* A dilation two voxels thick along z and y has run around PointA: the voxel
\* before it along y was free and is filled, the voxel before it along z is
\* covered by the footprint and keeps the background seed.
C21_Witness ==
    /\ dw_branch = "dilated"
    /\ dw_i = 1
    /\ first_dilation[1] = 2
    /\ dw_lines[1].y = DonutWide
    /\ dw_seeds[<<1, 2, 3>>] = dw_seeds[PointA]
    /\ dw_seeds[<<0, 3, 3>>] = dw_seeds[<<0, 0, 0>>]
    /\ dw_seeds[<<0, 3, 3>>] # dw_seeds[PointA]

\* ========================================================================
\* watershed_by_channels, modes BCDv2, BDv2 and Dv2 (post_processing.py
\* 248-280 and 307-344): the seed map handed to the watershed, 2D image.
\* ========================================================================
\* Columns of the image; it has two rows.
SvLen == 3

SvShape == <<2, SvLen>>

SvPix == {<<r, c>> : r \in 0..(SvShape[1] - 1), c \in 0..(SvShape[2] - 1)}

\* The channel values <<data[...,0], data[...,1]>> of a pixel.
SvValues == {<<0, 0>>, <<1, 0>>, <<0, 2>>, <<1, 2>>}

\* The thresholds the v2 modes read.
SvThs == [TH1 |-> 0, TH2 |-> 1, TH4 |-> 1]

\* seed_morph_sequence zipped with seed_morph_radius.
SvSequences ==
    {<<>>, <<<<"dilate", 1>>>>, <<<<"erode", 0>>>>, <<<<"dilate", 1>>, <<"erode", 1>>>>}

SvZero == [p \in SvPix |-> 0]

SvBefore(p, q) == p[1] < q[1] \/ (p[1] = q[1] /\ p[2] <= q[2])

SvManhattan(p, q) == Abs(p[1] - q[1]) + Abs(p[2] - q[2])

RECURSIVE SvComponent(_, _)
\* The pixels of S connected to the set from through pixels of S, connectivity 1.
SvComponent(S, from) ==
    LET more == {w \in S \ from : \E v \in from : SvManhattan(v, w) = 1}
    IN  IF more = {} THEN from ELSE SvComponent(S, from \cup more)

RECURSIVE SvLabelFrom(_, _, _)
\* skimage.measure.label(img, connectivity=1) of a two-valued img: the
\* components numbered in the order of their first pixel.
SvLabelFrom(S, out, n) ==
    IF S = {} THEN [map |-> out, num |-> n - 1]
    ELSE LET first == CHOOSE v \in S : \A w \in S : SvBefore(v, w)
             comp == SvComponent(S, {first})
         IN  SvLabelFrom(S \ comp, [v \in SvPix |-> IF v \in comp THEN n ELSE out[v]], n + 1)

SvLabel(S) == SvLabelFrom(S, SvZero, 1)

\* scipy binary_dilation(input, iterations=2): the default structure is the
\* cross, border_value is 0.
SvDilationTwice(S) == {p \in SvPix : \E q \in S : SvManhattan(p, q) <= 2}

\* skimage disk(radius), as offsets.
SvDisk(r) == {o \in (-r..r) \X (-r..r) : o[1] * o[1] + o[2] * o[2] <= r * r}

\* scipy binary_dilation(input, structure) and binary_erosion(input, structure)
\* on the non-zero pixels S of input; border_value is 0, so a pixel whose disk
\* leaves the image is eroded.
SvBinaryDilation(S, r) ==
    {p \in SvPix : \E o \in SvDisk(r) : <<p[1] + o[1], p[2] + o[2]>> \in S}

SvBinaryErosion(S, r) ==
    {p \in SvPix : \A o \in SvDisk(r) : <<p[1] + o[1], p[2] + o[2]>> \in S}

\* Line 272, seed_map[i] = morph_function(seed_map[i], disk(...)): the boolean
\* result is stored into the integer seed_map as 0 and 1.
SvAssign(map, S) == [p \in SvPix |-> IF p \in S THEN 1 ELSE 0]

RECURSIVE SvApplyMorph(_, _, _)
\* Lines 269-272: the operations k.. of the sequence on the slice.
SvApplyMorph(map, seq, k) ==
    IF k > Len(seq) THEN map
    ELSE LET nonzero == {p \in SvPix : map[p] # 0}
             result == IF seq[k][1] = "dilate"
                       THEN SvBinaryDilation(nonzero, seq[k][2])
                       ELSE SvBinaryErosion(nonzero, seq[k][2])
         IN  SvApplyMorph(SvAssign(map, result), seq, k + 1)

\* Lines 310-319, BCDv2.
SvSeedsBCDv2(d) ==
    LET seed == {p \in SvPix : d[p][1] > SvThs.TH1 /\ d[p][2] < SvThs.TH2
                               /\ d[p][2] < SvThs.TH4}
        dilated == SvDilationTwice({p \in SvPix : d[p][1] > SvThs.TH1 \/ d[p][2] > SvThs.TH2})
        lab == SvLabel(seed)
    IN  [p \in SvPix |-> lab.map[p] + (IF p \in dilated THEN 0 ELSE lab.num + 1)]

\* Lines 321-324 of BDv2: the seeds, a centroid of which is looked up at 327.
SvSeedsBDv2(d) == {p \in SvPix : d[p][1] > SvThs.TH1 /\ d[p][2] < SvThs.TH4}

\* Lines 322-333 of BDv2 when there is no seed: the labelled background seed.
SvBackgroundBDv2(d) ==
    SvLabel(SvDilationTwice({p \in SvPix : d[p][2] < SvThs.TH4})).map

\* Lines 335-336 of Dv2.
SvSeedsDv2(d) == SvLabel({p \in SvPix : d[p][1] < SvThs.TH4}).map

SvIdle ==
    /\ sv_pc = "idle"
    /\ sv_channels = "none"
    /\ sv_data = <<>>
    /\ sv_sequence = <<>>
    /\ sv_labelled = <<>>
    /\ sv_seed_map = <<>>
    /\ sv_error = "none"

\* The call, at line 307.
SvInit ==
    /\ sv_pc = "seeds"
    /\ sv_channels \in {"BCDv2", "BDv2", "Dv2"}
    /\ sv_data \in [SvPix -> SvValues]
    /\ sv_sequence \in SvSequences
    /\ sv_labelled = <<>>
    /\ sv_seed_map = <<>>
    /\ sv_error = "none"

\* Lines 307-336: the labelled seeds of the mode.
SvSeeds ==
    /\ sv_pc = "seeds"
    /\ IF sv_channels = "BDv2" /\ SvSeedsBDv2(sv_data) # {}
       THEN /\ sv_pc' = "error"
            /\ sv_error' = "KeyError"
            /\ UNCHANGED <<sv_labelled, sv_seed_map>>
       ELSE /\ sv_labelled' = CASE sv_channels = "BCDv2" -> SvSeedsBCDv2(sv_data)
                                [] sv_channels = "BDv2" -> SvBackgroundBDv2(sv_data)
                                [] OTHER -> SvSeedsDv2(sv_data)
            /\ sv_seed_map' = sv_labelled'
            /\ sv_pc' = "morph"
            /\ UNCHANGED sv_error
    /\ UNCHANGED <<sv_channels, sv_data, sv_sequence>>
    /\ UNCHANGED svOthers

\* Lines 338-339 and 248-280: erode_seed_and_foreground when the sequence is
\* not empty; seed_map is then handed to watershed (line 344).
SvMorph ==
    /\ sv_pc = "morph"
    /\ sv_seed_map' = IF Len(sv_sequence) # 0
                      THEN SvApplyMorph(sv_seed_map, sv_sequence, 1)
                      ELSE sv_seed_map
    /\ sv_pc' = "watershed"
    /\ UNCHANGED <<sv_channels, sv_data, sv_sequence, sv_labelled, sv_error>>
    /\ UNCHANGED svOthers

SvNext == SvSeeds \/ SvMorph

\* ------------------------------------------------------------------------
\* Claims about the seeds of the v2 modes
\* ------------------------------------------------------------------------
\* C23: in the seed map handed to the watershed, two pixels that carried
\* different labels when the seeds were labelled (two instances, or an
\* instance and the background seed) and are both still seeds carry different
\* labels.
C23_SeedLabelsStayDistinct ==
    sv_pc = "watershed" =>
        \A p \in SvPix, q \in SvPix :
            (/\ sv_labelled[p] # 0 /\ sv_labelled[q] # 0
             /\ sv_labelled[p] # sv_labelled[q]
             /\ sv_seed_map[p] # 0 /\ sv_seed_map[q] # 0)
            => sv_seed_map[p] # sv_seed_map[q]

\* ========================================================================
\* test_single_data_generator (test_single_data_generator.py 105-117,
\* 160-169, 177-210): the normalization dictionary handed out by
\* __getitem__.  A dictionary is the set of its <<key, value>> items.
\* ========================================================================
\* Samples of the generator, at most.
TgLen == 3

\* __getitem__ calls in one behaviour, at most.
TgCalls == 3

\* dtypes of the sample images before normalization.
TgDtypes == {"uint8", "uint16"}

TgSamples == UNION {[1..n -> TgDtypes] : n \in 0..TgLen}

DictKeys(d) == {item[1] : item \in d}

\* d.update(other): the items of other replace those of d with the same key.
DictUpdate(d, other) == {item \in d : item[1] \notin DictKeys(other)} \cup other

\* d[key] = value
DictSet(d, key, value) == DictUpdate(d, {<<key, value>>})

DictGet(d, key) == (CHOOSE item \in d : item[1] = key)[2]

\* norm_range01(img) of data.pre_processing: the second value it returns, a
\* dictionary of the steps applied, holding the dtype the image came with.
NormRange01(img_dtype) == {<<"orig_dtype", img_dtype>>}

\* load_sample (lines 160-169), read with the dictionary d as self.X_norm:
\* the third value it returns is None unless the type is 'div'.
LoadSampleNormIsNone(d) == DictGet(d, "type") # "div"

\* The third value load_sample returns when it is not None.
LoadSampleNorm(img_dtype) == NormRange01(img_dtype)

\* self.X_norm at the end of __init__ (lines 105-117).  load_sample(0) runs
\* with type 'div' (line 107) and casts the image to float32 (line 167),
\* which is the img.dtype line 114 stores.
ConstructedNorm(img_dtype, custom) ==
    IF custom
    THEN DictSet(DictSet(DictSet(DictSet({<<"type", "div">>},
             "type", "custom"), "mean", "norm_custom_mean"),
             "std", "norm_custom_std"), "orig_dtype", "float32")
    ELSE DictUpdate({<<"type", "div">>}, LoadSampleNorm(img_dtype))

\* self.X_norm after lines 194 and 201-202 of __getitem__(index).
NormAfterGetItem(d, img_dtype) ==
    IF LoadSampleNormIsNone(d) THEN d ELSE DictUpdate(d, LoadSampleNorm(img_dtype))

TgIdle ==
    /\ tg_pc = "idle"
    /\ tg_dtypes = <<>>
    /\ tg_custom = FALSE
    /\ X_norm = {}
    /\ tg_returned = <<>>
    /\ tg_error = "none"

TgInit ==
    /\ tg_pc = "new"
    /\ tg_dtypes \in TgSamples
    /\ tg_custom \in BOOLEAN
    /\ X_norm = {}
    /\ tg_returned = <<>>
    /\ tg_error = "none"

\* __init__: load_sample(0) indexes the samples, so none at all raises.
TgConstruct ==
    /\ tg_pc = "new"
    /\ IF Len(tg_dtypes) = 0
       THEN /\ tg_pc' = "raised"
            /\ tg_error' = "IndexError"
            /\ UNCHANGED X_norm
       ELSE /\ tg_pc' = "ready"
            /\ X_norm' = ConstructedNorm(tg_dtypes[1], tg_custom)
            /\ UNCHANGED tg_error
    /\ UNCHANGED <<tg_dtypes, tg_custom, tg_returned>>
    /\ UNCHANGED tgOthers

\* __getitem__(index): the second value returned is self.X_norm itself
\* (lines 204-210), so a caller holds the generator's dictionary object;
\* held is the content that object had when it was returned.
TgGetItem(index) ==
    /\ tg_pc = "ready"
    /\ Len(tg_returned) < TgCalls
    /\ X_norm' = NormAfterGetItem(X_norm, tg_dtypes[index + 1])
    /\ tg_returned' = Append(tg_returned, [index |-> index, held |-> X_norm'])
    /\ UNCHANGED <<tg_pc, tg_dtypes, tg_custom, tg_error>>
    /\ UNCHANGED tgOthers

TgNext ==
    \/ TgConstruct
    \/ \E index \in 0..(Len(tg_dtypes) - 1) : TgGetItem(index)

\* C30: the metadata object __getitem__(i) returned still holds, after any
\* later __getitem__(j) calls, the values it had when it was returned.  Every
\* call returns the one object self.X_norm, so its present content is what
\* each earlier caller reads.
C30_ReturnedMetadataUnaffected ==
    \A k \in 1..Len(tg_returned) : X_norm = tg_returned[k].held

\* ========================================================================
\* Specifications: one machine runs, the others stay idle.
\* ========================================================================
PointsInit == PtInit /\ SwIdle /\ CalIdle /\ WsIdle /\ DtIdle /\ EnsIdle /\ RsIdle /\ BlIdle /\ CiIdle /\ VtIdle /\ VmIdle /\ DwIdle /\ SvIdle /\ TgIdle

SpecPoints == PointsInit /\ [][PtNext]_vars

SweepInit == SwInit /\ PtIdle /\ CalIdle /\ WsIdle /\ DtIdle /\ EnsIdle /\ RsIdle /\ BlIdle /\ CiIdle /\ VtIdle /\ VmIdle /\ DwIdle /\ SvIdle /\ TgIdle

SpecSweep == SweepInit /\ [][SwNext]_vars

CalibrationInit == CalInit /\ PtIdle /\ SwIdle /\ WsIdle /\ DtIdle /\ EnsIdle /\ RsIdle /\ BlIdle /\ CiIdle /\ VtIdle /\ VmIdle /\ DwIdle /\ SvIdle /\ TgIdle

SpecCalibration == CalibrationInit /\ [][CalNext]_vars

WatershedInit == WsInit /\ PtIdle /\ SwIdle /\ CalIdle /\ DtIdle /\ EnsIdle /\ RsIdle /\ BlIdle /\ CiIdle /\ VtIdle /\ VmIdle /\ DwIdle /\ SvIdle /\ TgIdle

SpecWatershed == WatershedInit /\ [][WsNext]_vars

DtypeInit == DtInit /\ PtIdle /\ SwIdle /\ CalIdle /\ WsIdle /\ EnsIdle /\ RsIdle /\ BlIdle /\ CiIdle /\ VtIdle /\ VmIdle /\ DwIdle /\ SvIdle /\ TgIdle

SpecDtype == DtypeInit /\ [][DtNext]_vars

EnsembleInit ==
    EnsInit /\ PtIdle /\ SwIdle /\ CalIdle /\ WsIdle /\ DtIdle /\ RsIdle /\ BlIdle /\ CiIdle /\ VtIdle /\ VmIdle /\ DwIdle /\ SvIdle /\ TgIdle

SpecEnsemble == EnsembleInit /\ [][EnsNext]_vars

RemovalInit ==
    RsInit /\ PtIdle /\ SwIdle /\ CalIdle /\ WsIdle /\ DtIdle /\ EnsIdle /\ BlIdle /\ CiIdle /\ VtIdle /\ VmIdle /\ DwIdle /\ SvIdle /\ TgIdle

SpecRemoval == RemovalInit /\ [][RsNext]_vars

BlobsInit ==
    BlInit /\ PtIdle /\ SwIdle /\ CalIdle /\ WsIdle /\ DtIdle /\ EnsIdle /\ RsIdle /\ CiIdle /\ VtIdle /\ VmIdle /\ DwIdle /\ SvIdle /\ TgIdle

SpecBlobs == BlobsInit /\ [][BlNext]_vars

CircularityInit ==
    CiInit /\ PtIdle /\ SwIdle /\ CalIdle /\ WsIdle /\ DtIdle /\ EnsIdle /\ RsIdle /\ BlIdle /\ VtIdle /\ VmIdle /\ DwIdle /\ SvIdle /\ TgIdle

SpecCircularity == CircularityInit /\ [][CiNext]_vars

VoronoiFillInit ==
    VtInit /\ PtIdle /\ SwIdle /\ CalIdle /\ WsIdle /\ DtIdle /\ EnsIdle /\ RsIdle /\ BlIdle /\ CiIdle /\ VmIdle /\ DwIdle /\ SvIdle /\ TgIdle

SpecVoronoiFill == VoronoiFillInit /\ [][VtNext]_vars

VoronoiInit ==
    VmInit /\ PtIdle /\ SwIdle /\ CalIdle /\ WsIdle /\ DtIdle /\ EnsIdle /\ RsIdle /\ BlIdle /\ CiIdle /\ VtIdle /\ DwIdle /\ SvIdle /\ TgIdle

SpecVoronoi == VoronoiInit /\ [][VmNext]_vars

DonutInit ==
    DwInit /\ PtIdle /\ SwIdle /\ CalIdle /\ WsIdle /\ DtIdle /\ EnsIdle /\ RsIdle /\ BlIdle /\ CiIdle /\ VtIdle /\ VmIdle /\ SvIdle /\ TgIdle

SpecDonut == DonutInit /\ [][DwNext]_vars

SeedsInit ==
    SvInit /\ PtIdle /\ SwIdle /\ CalIdle /\ WsIdle /\ DtIdle /\ EnsIdle /\ RsIdle /\ BlIdle /\ CiIdle /\ VtIdle /\ VmIdle /\ DwIdle /\ TgIdle

SpecSeeds == SeedsInit /\ [][SvNext]_vars

GeneratorInit ==
    TgInit /\ PtIdle /\ SwIdle /\ CalIdle /\ WsIdle /\ DtIdle /\ EnsIdle /\ RsIdle /\ BlIdle /\ CiIdle /\ VtIdle /\ VmIdle /\ DwIdle /\ SvIdle

SpecGenerator == GeneratorInit /\ [][TgNext]_vars

=============================================================================
